---- MODULE Spec2Model ----
(***************************************************************************)
(* GraphQLHelper of nodeknit/app-graphql: the registry of Sequelize        *)
(* models, the generation of typeDefs and resolvers from it, and the       *)
(* generated CRUD resolvers with their authorization hook.                 *)
(*                                                                         *)
(* JavaScript values are represented as follows.                           *)
(*   object          a function from its keys (strings) to its values      *)
(*   maybe-object    [t |-> "undefined" | "null" | "object", m |-> object] *)
(*   Map             models: a sequence in insertion order; modelMetadata: *)
(*                   a function from the keys                              *)
(*   Set             a set                                                 *)
(*   typeDefs        the sequence of its lines, each line the sequence of  *)
(*                   the pieces the code concatenates                      *)
(***************************************************************************)
EXTENDS Integers, Sequences, FiniteSets, TLC

VARIABLES
    models,              \* GraphQLHelper.models (Map, insertion order)
    modelMetadata,       \* GraphQLHelper.modelMetadata (Map)
    customResolvers,     \* GraphQLHelper.customResolvers
    customTypes,         \* GraphQLHelper.customTypes
    customQueries,       \* GraphQLHelper.customQueries
    customMutations,     \* GraphQLHelper.customMutations
    customSubscriptions, \* GraphQLHelper.customSubscriptions
    blackList,           \* GraphQLHelper.blackList
    whiteList,           \* GraphQLHelper.whiteList
    sequelize,           \* GraphQLHelper.sequelize (constructor argument)
    schema,              \* the value the last getSchema() call returned
    fresh,               \* no registration method was called since the last getSchema()
    inv,                 \* the resolver invocation in progress or finished last
    classMetadata,       \* Reflect metadata under GQL_MODEL_KEY, per model class
    generator,           \* the fields of a GraphQLSchemaGenerator
    generatorSchema,     \* the value its last generateSchema() call returned
    pool,                \* resolver invocations in progress side by side
    app                  \* the fields of an AppGraphQL around the helper

registry == <<models, modelMetadata, customResolvers, customTypes, customQueries,
              customMutations, customSubscriptions, blackList, whiteList>>

vars == <<models, modelMetadata, customResolvers, customTypes, customQueries,
          customMutations, customSubscriptions, blackList, whiteList,
          sequelize, schema, fresh, inv, classMetadata, generator,
          generatorSchema, pool, app>>

\* the state outside a GraphQLHelper and its resolvers
beyondHelper == <<classMetadata, generator, generatorSchema, pool, app>>

-----------------------------------------------------------------------------
(* Bounds of the model.                                                    *)

\* registrations (models, patterns, custom items) a helper holds at most
MaxRegistrations == 3
\* models registered at most while resolvers are invoked
MaxResolverModels == 1

-----------------------------------------------------------------------------
(* JavaScript objects.                                                     *)

EmptyObj == <<>>

\* { ...a, ...b } and Object.assign(a, b): b's keys win
Assign(a, b) ==
    [k \in (DOMAIN a) \cup (DOMAIN b) |-> IF k \in DOMAIN b THEN b[k] ELSE a[k]]

Undefined == [t |-> "undefined", m |-> EmptyObj]
Null == [t |-> "null", m |-> EmptyObj]
Obj(m) == [t |-> "object", m |-> m]

\* the own enumerable properties a spread of v copies (none for undefined, null)
Spread(v) == IF v.t = "object" THEN v.m ELSE EmptyObj

\* truthiness of a maybe-object
Truthy(v) == v.t = "object"

UpperCase == "ABCDEFGHIJKLMNOPQRSTUVWXYZ"
LowerCase == "abcdefghijklmnopqrstuvwxyz"

\* String.prototype.toLowerCase on one character
ToLowerChar(c) ==
    IF \E i \in 1..Len(UpperCase) : SubSeq(UpperCase, i, i) = c
    THEN LET i == CHOOSE j \in 1..Len(UpperCase) : SubSeq(UpperCase, j, j) = c
         IN  SubSeq(LowerCase, i, i)
    ELSE c

\* modelName.charAt(0).toLowerCase() + modelName.slice(1)
QueryName(modelName) ==
    IF Len(modelName) = 0 THEN ""
    ELSE ToLowerChar(SubSeq(modelName, 1, 1)) \o SubSeq(modelName, 2, Len(modelName))

-----------------------------------------------------------------------------
(* The decorators: metadata attached to model classes.                     *)

\* a GQLFieldConfig; nullable and list are "undefined", "true" or "false";
\* customType "" and resolver "" stand for undefined
FieldConfig(exclude, nullable, list, description) ==
    [defined |-> TRUE, exclude |-> exclude, nullable |-> nullable, list |-> list,
     description |-> description, customType |-> "", resolver |-> ""]

\* operations of a GQLModelConfig; keys are the keys the object sets, and a
\* key that is not set is falsy
OperationKinds == {"query", "mutation", "subscription"}
Operations(q, m, s) ==
    [defined |-> TRUE, query |-> q, mutation |-> m, subscription |-> s,
     keys |-> OperationKinds]
NoOperations ==
    [defined |-> FALSE, query |-> FALSE, mutation |-> FALSE, subscription |-> FALSE,
     keys |-> {}]
\* an operations object that sets only mutation
OnlyMutation(m) == [Operations(FALSE, m, FALSE) EXCEPT !.keys = {"mutation"}]

\* excludeFields and customFields of a GQLModelConfig: undefined, or an array
\* of field names, an object of field configurations (its entries, in order)
\* (sharedWith names the class whose metadata holds the very same array or
\* object, "" when it is the holder's own)
NoExcludeFields == [defined |-> FALSE, items |-> << >>, sharedWith |-> ""]
ExcludeFields(items) == [defined |-> TRUE, items |-> items, sharedWith |-> ""]
NoCustomFields == [defined |-> FALSE, fields |-> << >>, sharedWith |-> ""]
CustomFields(fields) == [defined |-> TRUE, fields |-> fields, sharedWith |-> ""]

\* a GQLModelConfig; typeName "", description "" and authHandler "" stand for
\* undefined, exclude for exclude ?? false
ModelConfig(exclude, description, operations, authRequired, authHandler) ==
    [defined |-> TRUE, exclude |-> exclude, description |-> description,
     operations |-> operations, authRequired |-> authRequired,
     authHandler |-> authHandler, typeName |-> "",
     excludeFields |-> NoExcludeFields, customFields |-> NoCustomFields]

\* Reflect.getMetadata(GQL_MODEL_KEY, target) of a class without @GQLModel
NoMetadata ==
    [defined |-> FALSE, exclude |-> FALSE, description |-> "",
     operations |-> NoOperations, authRequired |-> FALSE, authHandler |-> "",
     typeName |-> "", excludeFields |-> NoExcludeFields, customFields |-> NoCustomFields]

\* the object literal {} as a GQLModelConfig
EmptyConfig == [NoMetadata EXCEPT !.defined = TRUE]

\* getGQLModelMetadata(target): Reflect.getMetadata(GQL_MODEL_KEY, target) || {}
getGQLModelMetadata(target) ==
    IF classMetadata[target.ref].defined THEN classMetadata[target.ref] ELSE EmptyConfig

\* getGQLFields(target): Reflect.getMetadata(GQL_FIELDS_KEY, target) || {}
getGQLFields(target) == target.gqlFields

-----------------------------------------------------------------------------
(* The model classes handed to addModel. Attributes and associations are   *)
(* sequences in the order of Object.entries; ref is the identity of the    *)
(* class object, gqlFieldOrder the order its fields were decorated in.     *)

Attr(name, type, allowNull) == [name |-> name, type |-> type, allowNull |-> allowNull]
Assoc(name, associationType, target) ==
    [name |-> name, associationType |-> associationType, target |-> target]

PostClass ==
    [ref |-> "PostClass", name |-> "Post", tableName |-> "posts",
     gqlFieldOrder |-> <<"title">>,
     gqlModel |-> [ModelConfig(FALSE, "", Operations(TRUE, TRUE, FALSE), FALSE, "ownerOnly")
                      EXCEPT !.typeName = "Article"],
     gqlFields |-> [title |-> FieldConfig(FALSE, "undefined", "undefined", "Title")],
     rawAttributes |-> << Attr("id", "STRING", "false"), Attr("title", "STRING", "undefined"),
                          Attr("authorId", "INTEGER", "true") >>,
     associations |-> << Assoc("author", "BelongsTo", "User") >>]

UserClass ==
    [ref |-> "UserClass", name |-> "User", tableName |-> "users",
     gqlFieldOrder |-> <<"password", "posts">>,
     gqlModel |-> [ModelConfig(FALSE, "Users", NoOperations, TRUE, "ownerOnly")
                      EXCEPT !.excludeFields = ExcludeFields(<<"tags">>)],
     gqlFields |-> [password |-> FieldConfig(TRUE, "undefined", "undefined", ""),
                    posts |-> FieldConfig(FALSE, "false", "undefined", "")],
     rawAttributes |-> << Attr("id", "UUID", "false"), Attr("password", "STRING", "false"),
                          Attr("tags", "ENUM", "undefined") >>,
     associations |-> << Assoc("posts", "HasMany", "Post") >>]

SecretClass ==
    [ref |-> "SecretClass", name |-> "Secret", tableName |-> "secrets",
     gqlFieldOrder |-> <<"title">>,
     gqlModel |-> [ModelConfig(FALSE, "", Operations(TRUE, TRUE, TRUE), TRUE, "")
                      EXCEPT !.customFields = CustomFields(<< >>)],
     gqlFields |-> [title |-> [FieldConfig(FALSE, "false", "true", "")
                                  EXCEPT !.customType = "Slug"]],
     rawAttributes |-> << Attr("id", "INTEGER", "false"), Attr("title", "", "undefined") >>,
     associations |-> << >>]

HiddenClass ==
    [ref |-> "HiddenClass", name |-> "Hidden", tableName |-> "hidden",
     gqlFieldOrder |-> << >>,
     gqlModel |-> ModelConfig(TRUE, "", NoOperations, FALSE, ""),
     gqlFields |-> EmptyObj,
     rawAttributes |-> << Attr("id", "STRING", "false") >>,
     associations |-> << >>]

PlainClass ==
    [ref |-> "PlainClass", name |-> "Plain", tableName |-> "plain",
     gqlFieldOrder |-> << >>,
     gqlModel |-> NoMetadata,
     gqlFields |-> EmptyObj,
     rawAttributes |-> << Attr("id", "STRING", "false") >>,
     associations |-> << >>]

\* the same class name as UserClass, decorated without authorization
OpenUserClass ==
    [UserClass EXCEPT !.ref = "OpenUserClass",
                      !.gqlModel = ModelConfig(FALSE, "", Operations(TRUE, TRUE, FALSE), FALSE, "")]

ModelClasses == {PostClass, UserClass, SecretClass, HiddenClass, PlainClass, OpenUserClass}

\* a class whose decorator sets operations: { mutation: true } and no more,
\* with a field whose custom type is a non-null list of non-null items
DraftClass ==
    [ref |-> "DraftClass", name |-> "Draft", tableName |-> "drafts",
     gqlFieldOrder |-> <<"tags">>,
     gqlModel |-> ModelConfig(FALSE, "", OnlyMutation(TRUE), FALSE, ""),
     gqlFields |-> [tags |-> [FieldConfig(FALSE, "undefined", "undefined", "")
                                 EXCEPT !.customType = "[Slug!]!"]],
     rawAttributes |-> << Attr("id", "STRING", "false"), Attr("tags", "STRING", "false"),
                          Attr("body", "TEXT", "false") >>,
     associations |-> << >>]

\* the classes that carry metadata
DecoratedClasses == ModelClasses \cup {DraftClass}

ModelNames == {c.name : c \in ModelClasses}

\* the patterns handed to addToBlackList
BlackPatterns == {"Post.title", "id", "User", "author"}

\* the names handed to addToWhiteList
WhiteNames == {"Post", "User"}

\* the custom items handed to addType, addResolver, addQuery, addMutation, addSubscription
CustomTypeItems == {"type Stats { total: Int }"}

Custom(id) == [kind |-> "custom", of |-> id]

CustomResolverItems ==
    { [Query |-> [post |-> Custom("r.post")], Mutation |-> [createPost |-> Custom("r.createPost")],
       Post |-> [author |-> Custom("r.author")]] }

CustomQueryItems ==
    { [name |-> "post", type |-> "Post", resolver |-> Custom("q.post"), description |-> "Latest"] }

CustomMutationItems ==
    { [name |-> "resetStats", inputType |-> "", outputType |-> "Boolean",
       resolver |-> Custom("m.resetStats"), description |-> ""] }

CustomSubscriptionItems ==
    { [name |-> "statsChanged", type |-> "Stats", resolver |-> Custom("s.statsChanged"),
       description |-> ""] }

-----------------------------------------------------------------------------
(* Field extraction.                                                       *)

\* fieldConfigs[name], undefined when the field has no @GQLField
NoFieldConfig ==
    [defined |-> FALSE, exclude |-> FALSE, nullable |-> "undefined",
     list |-> "undefined", description |-> "", customType |-> "", resolver |-> ""]

FieldConfigOf(fieldConfigs, name) ==
    IF name \in DOMAIN fieldConfigs THEN fieldConfigs[name] ELSE NoFieldConfig

\* modelMetadata.get(name)?.fieldConfigs || {}
FieldConfigsOf(name) ==
    IF name \in DOMAIN modelMetadata THEN modelMetadata[name].fieldConfigs ELSE EmptyObj

\* modelMetadata.get(name)?.modelConfig
ModelConfigOf(name) ==
    IF name \in DOMAIN modelMetadata THEN modelMetadata[name].modelConfig ELSE NoMetadata

typeMap ==
    [STRING |-> "String", TEXT |-> "String", INTEGER |-> "Int", BIGINT |-> "String",
     FLOAT |-> "Float", DOUBLE |-> "Float", DECIMAL |-> "Float", BOOLEAN |-> "Boolean",
     DATE |-> "String", DATEONLY |-> "String", TIME |-> "String", JSON |-> "String",
     UUID |-> "String"]

\* a GraphQLFieldType; isNone marks the null the association conversion may return
Field(name, type, isNullable, isList, isRelation, relationType, relatedModel) ==
    [isNone |-> FALSE, name |-> name, type |-> type, isNullable |-> isNullable,
     isList |-> isList, isRelation |-> isRelation, relationType |-> relationType,
     relatedModel |-> relatedModel]

NoField == [Field("", "", FALSE, FALSE, FALSE, "", "") EXCEPT !.isNone = TRUE]

convertSequelizeAttributeToGraphQLField(name, attr, fieldConfig) ==
    LET sequelizeType == IF attr.type = "" THEN "STRING" ELSE attr.type
        graphQLType == IF sequelizeType \in DOMAIN typeMap THEN typeMap[sequelizeType]
                       ELSE "String"
        isNullable == IF fieldConfig.nullable # "undefined" THEN fieldConfig.nullable = "true"
                      ELSE attr.allowNull # "false"
        isList == fieldConfig.list = "true"
    IN  Field(name, graphQLType, isNullable, isList, FALSE, "", "")

convertSequelizeAssociationToGraphQLField(name, assoc, fieldConfig) ==
    LET targetModel == assoc.target
        isList == IF fieldConfig.list # "undefined" THEN fieldConfig.list = "true"
                  ELSE assoc.associationType \in {"HasMany", "BelongsToMany"}
        isNullable == IF fieldConfig.nullable # "undefined" THEN fieldConfig.nullable = "true"
                      ELSE assoc.associationType # "BelongsTo"
    IN  IF targetModel = "" THEN NoField
        ELSE Field(name, targetModel, isNullable, isList, TRUE,
                   assoc.associationType, targetModel)

\* isFieldBlacklisted without the bare field name
isFieldBlacklistedQualifiedOnly(modelName, fieldName) ==
    \/ (modelName \o "." \o fieldName) \in blackList
    \/ modelName \in blackList

\* isFieldBlacklisted that looks for the field and not for the bare model name
isFieldBlacklistedByField(modelName, fieldName) ==
    \/ (modelName \o "." \o fieldName) \in blackList
    \/ fieldName \in blackList

isFieldBlacklisted(modelName, fieldName) ==
    \/ (modelName \o "." \o fieldName) \in blackList
    \/ fieldName \in blackList
    \/ modelName \in blackList

RECURSIVE ExtractAttributes(_, _, _)
ExtractAttributes(modelName, attrs, fieldConfigs) ==
    IF attrs = << >> THEN << >>
    ELSE LET a == Head(attrs)
             fieldConfig == FieldConfigOf(fieldConfigs, a.name)
             rest == ExtractAttributes(modelName, Tail(attrs), fieldConfigs)
         IN  IF isFieldBlacklisted(modelName, a.name) THEN rest
             ELSE IF fieldConfig.exclude THEN rest
             ELSE << convertSequelizeAttributeToGraphQLField(a.name, a, fieldConfig) >> \o rest

RECURSIVE ExtractAssociations(_, _, _)
ExtractAssociations(modelName, assocs, fieldConfigs) ==
    IF assocs = << >> THEN << >>
    ELSE LET a == Head(assocs)
             fieldConfig == FieldConfigOf(fieldConfigs, a.name)
             field == convertSequelizeAssociationToGraphQLField(a.name, a, fieldConfig)
             rest == ExtractAssociations(modelName, Tail(assocs), fieldConfigs)
         IN  IF isFieldBlacklisted(modelName, a.name) THEN rest
             ELSE IF fieldConfig.exclude THEN rest
             ELSE IF field.isNone THEN rest
             ELSE << field >> \o rest

extractModelFields(model) ==
    ExtractAttributes(model.name, model.attributes, FieldConfigsOf(model.name))
    \o ExtractAssociations(model.name, model.associations, FieldConfigsOf(model.name))

-----------------------------------------------------------------------------
(* typeDefs.                                                               *)

Q3 == "\"\"\""
BlankLine == << >>

\* the type of a field line: [T] when a list, a trailing ! when not nullable
FieldTypeText(field) ==
    LET listed == IF field.isList THEN "[" \o field.type \o "]" ELSE field.type
    IN  IF field.isNullable THEN listed ELSE listed \o "!"

FieldLines(field, fieldConfigs) ==
    LET fieldConfig == FieldConfigOf(fieldConfigs, field.name)
    IN  (IF fieldConfig.description # "" THEN << <<"  ", Q3, fieldConfig.description, Q3>> >>
         ELSE << >>)
        \o << <<"  ", field.name, ": ", FieldTypeText(field)>> >>

RECURSIVE TypeFieldLines(_, _, _)
TypeFieldLines(modelName, fields, fieldConfigs) ==
    IF fields = << >> THEN << >>
    ELSE LET rest == TypeFieldLines(modelName, Tail(fields), fieldConfigs)
         IN  IF isFieldBlacklisted(modelName, Head(fields).name) THEN rest
             ELSE FieldLines(Head(fields), fieldConfigs) \o rest

RECURSIVE InputFieldLines(_, _, _)
InputFieldLines(modelName, fields, fieldConfigs) ==
    IF fields = << >> THEN << >>
    ELSE LET rest == InputFieldLines(modelName, Tail(fields), fieldConfigs)
         IN  IF isFieldBlacklisted(modelName, Head(fields).name) \/ Head(fields).isRelation
             THEN rest
             ELSE FieldLines(Head(fields), fieldConfigs) \o rest

generateModelType(model) ==
    LET fields == extractModelFields(model)
        modelConfig == ModelConfigOf(model.name)
        fieldConfigs == FieldConfigsOf(model.name)
        description ==
            IF modelConfig.description # ""
            THEN << <<Q3, IF modelConfig.authRequired
                          THEN modelConfig.description \o " (Requires authentication)"
                          ELSE modelConfig.description, Q3>> >>
            ELSE IF modelConfig.authRequired
                 THEN << <<Q3, "Requires authentication", Q3>> >>
                 ELSE << >>
    IN  description
        \o << <<"type ", model.name, " {">> >>
        \o TypeFieldLines(model.name, fields, fieldConfigs)
        \o << <<"}">> >>

generateModelInputType(model) ==
    LET fields == extractModelFields(model)
        fieldConfigs == FieldConfigsOf(model.name)
    IN  << <<"input ", model.name, "Input {">> >>
        \o InputFieldLines(model.name, fields, fieldConfigs)
        \o << <<"}">> >>

\* SkippedByWhiteList without the test for an empty whitelist
SkippedByWhiteListAlways(modelName) == modelName \notin whiteList

\* the whitelist test every generation loop starts with
SkippedByWhiteList(modelName) ==
    Cardinality(whiteList) > 0 /\ modelName \notin whiteList

\* OperationsOf taking every operation kind for enabled
OperationsOfAllEnabled(modelName) == Operations(TRUE, TRUE, TRUE)

\* modelConfig?.operations || { query: true, mutation: true, subscription: true }
OperationsOf(modelName) ==
    LET modelConfig == ModelConfigOf(modelName)
    IN  IF modelConfig.operations.defined THEN modelConfig.operations
        ELSE Operations(TRUE, TRUE, TRUE)

RootQueryFields(modelName) ==
    << <<"  ", QueryName(modelName), "(id: String!): ", modelName>>,
       <<"  ", QueryName(modelName) \o "List",
         "(where: JSON, limit: Int, offset: Int, order: String): [", modelName, "]">> >>

RootMutationFields(modelName) ==
    << <<"  ", "create" \o modelName, "(input: ", modelName \o "Input", "!): ", modelName>>,
       <<"  ", "update" \o modelName, "(id: String!, input: ", modelName \o "Input", "!): ",
         modelName>>,
       <<"  ", "delete" \o modelName, "(id: String!): Boolean">> >>

RootSubscriptionFields(modelName) ==
    << <<"  ", QueryName(modelName) \o "Created", ": ", modelName>>,
       <<"  ", QueryName(modelName) \o "Updated", ": ", modelName>>,
       <<"  ", QueryName(modelName) \o "Deleted", "(id: String!): ", modelName>> >>

\* the root fields of one operation kind, over the models in Map order
RECURSIVE ModelRootFields(_, _)
ModelRootFields(ms, kind) ==
    IF ms = << >> THEN << >>
    ELSE LET modelName == Head(ms).name
             operations == OperationsOf(modelName)
             rest == ModelRootFields(Tail(ms), kind)
         IN  IF SkippedByWhiteList(modelName) THEN rest
             ELSE IF kind = "query" /\ operations.query
                  THEN RootQueryFields(modelName) \o rest
             ELSE IF kind = "mutation" /\ operations.mutation
                  THEN RootMutationFields(modelName) \o rest
             ELSE IF kind = "subscription" /\ operations.subscription
                  THEN RootSubscriptionFields(modelName) \o rest
             ELSE rest

CustomDescription(h) ==
    IF h.description # "" THEN << <<"  ", Q3, h.description, Q3>> >> ELSE << >>

RECURSIVE CustomRootFields(_)
CustomRootFields(hs) ==
    IF hs = << >> THEN << >>
    ELSE CustomDescription(Head(hs))
         \o << <<"  ", Head(hs).name, ": ", Head(hs).type>> >>
         \o CustomRootFields(Tail(hs))

RECURSIVE CustomMutationFields(_)
CustomMutationFields(hs) ==
    IF hs = << >> THEN << >>
    ELSE LET inputType == IF Head(hs).inputType # ""
                          THEN "(input: " \o Head(hs).inputType \o "!)" ELSE ""
         IN  CustomDescription(Head(hs))
             \o << <<"  ", Head(hs).name \o inputType, ": ", Head(hs).outputType>> >>
             \o CustomMutationFields(Tail(hs))

generateRootTypes ==
    LET queryFields == ModelRootFields(models, "query") \o CustomRootFields(customQueries)
        mutationFields == ModelRootFields(models, "mutation")
                          \o CustomMutationFields(customMutations)
        subscriptionFields == ModelRootFields(models, "subscription")
                              \o CustomRootFields(customSubscriptions)
    IN  << BlankLine, <<"            type Query {">> >> \o queryFields
        \o << BlankLine, <<"            }">>, <<"            type Mutation {">> >>
        \o mutationFields
        \o << BlankLine, <<"            }">>, <<"            type Subscription {">> >>
        \o subscriptionFields
        \o << BlankLine, <<"            }">>, <<"        ">> >>

RECURSIVE CustomTypeLines(_)
CustomTypeLines(ts) ==
    IF ts = << >> THEN << >> ELSE << <<Head(ts)>> >> \o CustomTypeLines(Tail(ts))

RECURSIVE ModelTypeLines(_)
ModelTypeLines(ms) ==
    IF ms = << >> THEN << >>
    ELSE IF SkippedByWhiteList(Head(ms).name) THEN ModelTypeLines(Tail(ms))
    ELSE generateModelType(Head(ms)) \o << BlankLine >> \o ModelTypeLines(Tail(ms))

RECURSIVE ModelInputLines(_)
ModelInputLines(ms) ==
    IF ms = << >> THEN << >>
    ELSE IF SkippedByWhiteList(Head(ms).name) THEN ModelInputLines(Tail(ms))
    ELSE generateModelInputType(Head(ms)) \o << BlankLine >> \o ModelInputLines(Tail(ms))

generateTypeDefs ==
    << <<"scalar JSON">>, BlankLine >>
    \o CustomTypeLines(customTypes)
    \o ModelTypeLines(models)
    \o ModelInputLines(models)
    \o generateRootTypes

-----------------------------------------------------------------------------
(* Resolver map. A generated resolver is the closure over its model's      *)
(* name: [kind, of]; a custom one is named by its item.                    *)

Resolver(kind, modelName) == [kind |-> kind, of |-> modelName]

\* resolvers[key] || {}
Get(resolvers, key) == IF key \in DOMAIN resolvers THEN resolvers[key] ELSE EmptyObj

\* resolvers[key] = value
Put(resolvers, key, value) == Assign(resolvers, [k \in {key} |-> value])

RECURSIVE FieldResolvers(_, _)
FieldResolvers(modelName, assocs) ==
    IF assocs = << >> THEN EmptyObj
    ELSE LET a == Head(assocs)
             rest == FieldResolvers(modelName, Tail(assocs))
         IN  IF isFieldBlacklisted(modelName, a.name) THEN rest
             ELSE Assign([k \in {a.name} |-> Resolver("field", modelName \o "." \o a.name)],
                         rest)

generateFieldResolvers(model) == FieldResolvers(model.name, model.associations)

\* one round of the loop over this.models in generateResolvers
ModelResolvers(resolvers, model) ==
    LET modelName == model.name
        operations == OperationsOf(modelName)
        queryName == QueryName(modelName)
        withQuery ==
            IF operations.query
            THEN Put(resolvers, "Query",
                     Assign(resolvers["Query"],
                            Assign([k \in {queryName} |-> Resolver("query", modelName)],
                                   [k \in {queryName \o "List"} |-> Resolver("list", modelName)])))
            ELSE resolvers
        withMutation ==
            IF operations.mutation
            THEN Put(withQuery, "Mutation",
                     Assign(withQuery["Mutation"],
                            [k \in {"create" \o modelName, "update" \o modelName,
                                    "delete" \o modelName} |->
                                IF k = "create" \o modelName THEN Resolver("create", modelName)
                                ELSE IF k = "update" \o modelName THEN Resolver("update", modelName)
                                ELSE Resolver("delete", modelName)]))
            ELSE withQuery
    IN  IF SkippedByWhiteList(modelName) THEN resolvers
        ELSE Put(withMutation, modelName, generateFieldResolvers(model))

RECURSIVE AllModelResolvers(_, _)
AllModelResolvers(resolvers, ms) ==
    IF ms = << >> THEN resolvers
    ELSE AllModelResolvers(ModelResolvers(resolvers, Head(ms)), Tail(ms))

RootKeys == {"Query", "Mutation", "Subscription"}

\* one round of the loop over this.customResolvers
MergeCustomResolver(resolvers, customResolver) ==
    LET roots == [k \in RootKeys |-> Assign(resolvers[k], Get(customResolver, k))]
        others == (DOMAIN customResolver) \ RootKeys
        types == [k \in others |-> Assign(Get(resolvers, k), customResolver[k])]
    IN  Assign(Assign(resolvers, roots), types)

RECURSIVE MergeCustomResolvers(_, _)
MergeCustomResolvers(resolvers, crs) ==
    IF crs = << >> THEN resolvers
    ELSE MergeCustomResolvers(MergeCustomResolver(resolvers, Head(crs)), Tail(crs))

\* resolvers[root][handler.name] = handler.resolver, for each handler in order
RECURSIVE AddHandlers(_, _, _)
AddHandlers(resolvers, root, hs) ==
    IF hs = << >> THEN resolvers
    ELSE AddHandlers(Put(resolvers, root,
                         Put(resolvers[root], Head(hs).name, Head(hs).resolver)),
                     root, Tail(hs))

\* generateResolvers with the custom handlers set before the custom resolver
\* maps are merged
generateResolversHandlersFirst ==
    LET start == [k \in RootKeys |-> EmptyObj]
        generated == AllModelResolvers(start, models)
        q == AddHandlers(generated, "Query", customQueries)
        m == AddHandlers(q, "Mutation", customMutations)
        s == AddHandlers(m, "Subscription", customSubscriptions)
    IN  MergeCustomResolvers(s, customResolvers)

generateResolvers ==
    LET start == [k \in RootKeys |-> EmptyObj]
        generated == AllModelResolvers(start, models)
        merged == MergeCustomResolvers(generated, customResolvers)
        q == AddHandlers(merged, "Query", customQueries)
        m == AddHandlers(q, "Mutation", customMutations)
    IN  AddHandlers(m, "Subscription", customSubscriptions)

-----------------------------------------------------------------------------
(* The public methods of GraphQLHelper.                                    *)

NoSchema == [generated |-> FALSE, typeDefs |-> << >>, resolvers |-> EmptyObj]

\* new GraphQLHelper(): no Sequelize instance
NoSequelize == [given |-> FALSE, models |-> {}]

\* the Sequelize instances a helper is constructed with: none, or one that
\* defines the models named
SequelizeChoices ==
    { NoSequelize,
      [given |-> TRUE, models |-> ModelNames],
      [given |-> TRUE, models |-> {"Post"}] }

\* a value a resolver call, a hook call or an ORM call is made with or ends in
NoArgs == [id |-> "", where |-> Undefined, limit |-> 0, offset |-> 0, order |-> "",
           input |-> Undefined]
NoResult == [status |-> "pending", kind |-> "", message |-> "", rows |-> 0, elems |-> ""]
NoHandle == [kind |-> "undefined", name |-> ""]

\* what an authorization hook may return: a boolean (legacy), or an AuthResult
AuthResult(success, where) == [legacy |-> FALSE, success |-> success, where |-> where]

\* one call of a generated resolver: where it stands (pc), its arguments, its
\* locals (handle is ModelClass, where is whereConditions or inputWhere,
\* modelConfig what the model's metadata held when it was called, authResult
\* the hook's result once authReturned), the calls it made to the hook and
\* to the ORM, in order, what findOne gave it (instance: "pending" before it
\* answers, then "null" or "row"), and what it returned or threw
Idle == [pc |-> "idle", by |-> "", op |-> "", model |-> "", typeName |-> "",
         args |-> NoArgs, req |-> "", field |-> "", parent |-> "",
         handle |-> NoHandle, modelConfig |-> NoMetadata, where |-> Undefined,
         authReturned |-> FALSE, authResult |-> AuthResult(FALSE, Undefined),
         instance |-> "pending", calls |-> << >>, result |-> NoResult]

\* a GraphQLSchemaGenerator after its field initializers
NewGenerator ==
    [models |-> << >>, modelConfigs |-> EmptyObj, customResolvers |-> EmptyObj,
     customTypes |-> << >>, blackList |-> << >>]

\* invocations the execution engine has in progress at once, at most
MaxConcurrent == 2

\* an AppGraphQL after its field initializers and constructor: its own
\* collections, the items other applications contributed to the shared
\* collection storage, and apolloServer (served is what it was built from)
NewApp ==
    [models |-> << >>, customResolvers |-> << >>, customTypes |-> << >>,
     customQueries |-> << >>, customMutations |-> << >>, customSubscriptions |-> << >>,
     whiteListedModels |-> << >>, blackListedFields |-> << >>,
     collections |-> [customQueries |-> << >>, customMutations |-> << >>,
                      customSubscriptions |-> << >>, customTypes |-> << >>],
     config |-> [endpoint |-> "/graphql", playground |-> TRUE, introspection |-> TRUE,
                 enableMutations |-> FALSE],
     state |-> "constructed", served |-> NoSchema]

\* the state after the constructor, for each Sequelize instance of seqs
Constructed(seqs) ==
    /\ models = << >>
    /\ modelMetadata = EmptyObj
    /\ customResolvers = << >>
    /\ customTypes = << >>
    /\ customQueries = << >>
    /\ customMutations = << >>
    /\ customSubscriptions = << >>
    /\ blackList = {}
    /\ whiteList = {}
    /\ sequelize \in seqs
    /\ schema = NoSchema
    /\ fresh = FALSE
    /\ inv = Idle
    /\ classMetadata = [r \in {c.ref : c \in DecoratedClasses} |->
                            (CHOOSE c \in DecoratedClasses : c.ref = r).gqlModel]
    /\ generator = NewGenerator
    /\ generatorSchema = NoSchema
    /\ pool = [s \in 1..MaxConcurrent |-> Idle]
    /\ app = NewApp

Init == Constructed({NoSequelize})

\* Map.prototype.set on this.models: a key already present keeps its place
MapSet(ms, model) ==
    IF \E i \in 1..Len(ms) : ms[i].name = model.name
    THEN [i \in 1..Len(ms) |-> IF ms[i].name = model.name THEN model ELSE ms[i]]
    ELSE Append(ms, model)

\* what addModel(model) leaves in the fields h of a helper
AddedModel(h, model) ==
    LET modelName == model.name
        modelConfig == getGQLModelMetadata(model)
        fieldConfigs == getGQLFields(model)
        sequelizeModel == [name |-> modelName,
                           attributes |-> model.rawAttributes,
                           associations |-> model.associations,
                           tableName |-> model.tableName,
                           primaryKeyAttribute |-> "id"]
    IN  IF modelName \in h.blackList THEN h
        ELSE IF ~modelConfig.defined \/ modelConfig.exclude THEN h
        ELSE [h EXCEPT !.models = MapSet(h.models, sequelizeModel),
                       !.modelMetadata =
                           Put(h.modelMetadata, modelName,
                               [modelConfig |-> modelConfig, fieldConfigs |-> fieldConfigs])]

\* the fields of the helper
Helper ==
    [models |-> models, modelMetadata |-> modelMetadata,
     customResolvers |-> customResolvers, customTypes |-> customTypes,
     customQueries |-> customQueries, customMutations |-> customMutations,
     customSubscriptions |-> customSubscriptions, blackList |-> blackList,
     whiteList |-> whiteList]

addModel(model) ==
    LET h == AddedModel(Helper, model)
    IN  /\ fresh' = FALSE
        /\ models' = h.models
        /\ modelMetadata' = h.modelMetadata
        /\ UNCHANGED <<customResolvers, customTypes, customQueries, customMutations,
                       customSubscriptions, blackList, whiteList, sequelize, schema, inv, beyondHelper>>

addResolver(resolver) ==
    /\ customResolvers' = Append(customResolvers, resolver)
    /\ fresh' = FALSE
    /\ UNCHANGED <<models, modelMetadata, customTypes, customQueries, customMutations,
                   customSubscriptions, blackList, whiteList, sequelize, schema, inv, beyondHelper>>

addType(typeDefinition) ==
    /\ customTypes' = Append(customTypes, typeDefinition)
    /\ fresh' = FALSE
    /\ UNCHANGED <<models, modelMetadata, customResolvers, customQueries, customMutations,
                   customSubscriptions, blackList, whiteList, sequelize, schema, inv, beyondHelper>>

addQuery(queryHandler) ==
    /\ customQueries' = Append(customQueries, queryHandler)
    /\ fresh' = FALSE
    /\ UNCHANGED <<models, modelMetadata, customResolvers, customTypes, customMutations,
                   customSubscriptions, blackList, whiteList, sequelize, schema, inv, beyondHelper>>

addMutation(mutationHandler) ==
    /\ customMutations' = Append(customMutations, mutationHandler)
    /\ fresh' = FALSE
    /\ UNCHANGED <<models, modelMetadata, customResolvers, customTypes, customQueries,
                   customSubscriptions, blackList, whiteList, sequelize, schema, inv, beyondHelper>>

addSubscription(subscriptionHandler) ==
    /\ customSubscriptions' = Append(customSubscriptions, subscriptionHandler)
    /\ fresh' = FALSE
    /\ UNCHANGED <<models, modelMetadata, customResolvers, customTypes, customQueries,
                   customMutations, blackList, whiteList, sequelize, schema, inv, beyondHelper>>

addToBlackList(pattern) ==
    /\ blackList' = blackList \cup {pattern}
    /\ fresh' = FALSE
    /\ UNCHANGED <<models, modelMetadata, customResolvers, customTypes, customQueries,
                   customMutations, customSubscriptions, whiteList, sequelize, schema, inv, beyondHelper>>

\* addToWhiteList pruning the registry down to the whitelisted models
addToWhiteListPruning(modelName) ==
    LET kept == whiteList \cup {modelName}
    IN  /\ whiteList' = kept
        /\ models' = SelectSeq(models, LAMBDA m : m.name \in kept)
        /\ modelMetadata' = [n \in (DOMAIN modelMetadata) \cap kept |-> modelMetadata[n]]
        /\ fresh' = FALSE
        /\ UNCHANGED <<customResolvers, customTypes, customQueries, customMutations,
                       customSubscriptions, blackList, sequelize, schema, inv, beyondHelper>>

addToWhiteList(modelName) ==
    /\ whiteList' = whiteList \cup {modelName}
    /\ fresh' = FALSE
    /\ UNCHANGED <<models, modelMetadata, customResolvers, customTypes, customQueries,
                   customMutations, customSubscriptions, blackList, sequelize, schema, inv, beyondHelper>>

\* getSchema keeping the JSON scalar it emits among the custom types
getSchemaKeepingScalar ==
    /\ schema' = [generated |-> TRUE, typeDefs |-> generateTypeDefs,
                  resolvers |-> generateResolvers]
    /\ customTypes' = Append(customTypes, "scalar JSON")
    /\ fresh' = TRUE
    /\ UNCHANGED <<models, modelMetadata, customResolvers, customQueries, customMutations,
                   customSubscriptions, blackList, whiteList, sequelize, inv, beyondHelper>>

getSchema ==
    /\ schema' = [generated |-> TRUE, typeDefs |-> generateTypeDefs,
                  resolvers |-> generateResolvers]
    /\ fresh' = TRUE
    /\ UNCHANGED <<registry, sequelize, inv, beyondHelper>>

\* what the helper holds: the measure the bounds are stated on
RegistrySize ==
    Len(models) + Cardinality(blackList) + Cardinality(whiteList) + Len(customResolvers)
    + Len(customTypes) + Len(customQueries) + Len(customMutations)
    + Len(customSubscriptions)

AddModel == \E model \in ModelClasses : addModel(model)
AddResolver == \E r \in CustomResolverItems : addResolver(r)
AddType == \E t \in CustomTypeItems : addType(t)
AddQuery == \E q \in CustomQueryItems : addQuery(q)
AddMutation == \E m \in CustomMutationItems : addMutation(m)
AddSubscription == \E s \in CustomSubscriptionItems : addSubscription(s)
AddToBlackList == \E p \in BlackPatterns : addToBlackList(p)
AddToWhiteList == \E n \in WhiteNames : addToWhiteList(n)
GetSchema == getSchema

Next ==
    \/ AddModel /\ RegistrySize' <= MaxRegistrations
    \/ AddResolver /\ RegistrySize' <= MaxRegistrations
    \/ AddType /\ RegistrySize' <= MaxRegistrations
    \/ AddQuery /\ RegistrySize' <= MaxRegistrations
    \/ AddMutation /\ RegistrySize' <= MaxRegistrations
    \/ AddSubscription /\ RegistrySize' <= MaxRegistrations
    \/ AddToBlackList /\ RegistrySize' <= MaxRegistrations
    \/ AddToWhiteList /\ RegistrySize' <= MaxRegistrations
    \/ GetSchema

Spec == Init /\ [][Next]_vars

-----------------------------------------------------------------------------
(* The generated CRUD resolvers. Each is an async function: it runs up to  *)
(* an await in one step and goes on when the awaited call returns.         *)

CrudKinds == {"query", "list", "create", "update", "delete"}

\* getModelClass(modelName): the class of the Sequelize instance, else the
\* descriptor in this.models, which has none of the ORM's methods
getModelClass(modelName) ==
    IF sequelize.given
    THEN IF modelName \in sequelize.models THEN [kind |-> "class", name |-> modelName]
         ELSE NoHandle
    ELSE IF \E i \in 1..Len(models) : models[i].name = modelName
         THEN [kind |-> "descriptor", name |-> modelName]
         ELSE NoHandle

\* what a resolver returns when getModelClass gives nothing
AbsentResult(op) ==
    [NoResult EXCEPT !.status = "returned",
                     !.kind = IF op = "list" THEN "list"
                              ELSE IF op = "delete" THEN "false" ELSE "null"]

Thrown(message) == [NoResult EXCEPT !.status = "thrown", !.message = message]
Returned(kind, rows) == [NoResult EXCEPT !.status = "returned", !.kind = kind, !.rows = rows]

\* a list of rows values, each a toJSON() output ("json") or a live instance
ReturnedList(rows, elems) == [Returned("list", rows) EXCEPT !.elems = elems]

\* the conditions a resolver starts with: { id }, args.where; the create
\* resolver has none and hands the hook args.input
InitialConditions(op, args) ==
    IF op = "list" THEN args.where
    ELSE IF op = "create" THEN args.input
    ELSE Obj([id |-> args.id])

\* AuthTag naming the resolver instead of the operation
AuthTagOfResolver(op) == op

\* the operation tag handed to the hook
AuthTag(op) == IF op \in {"query", "list"} THEN "query" ELSE op

Call(fn, req, arg, tag) ==
    [fn |-> fn, req |-> req, arg |-> arg, id |-> "", limit |-> 0, offset |-> 0,
     order |-> "", tag |-> tag, include |-> ""]

\* the ORM call a resolver makes once authorization has passed
OrmCall(iv) ==
    IF iv.op = "list"
    THEN [Call("findAll", "", iv.where, "") EXCEPT
             !.limit = iv.args.limit, !.offset = iv.args.offset, !.order = iv.args.order]
    ELSE IF iv.op = "create"
    THEN LET input == Null   \* let _input = null; ModelClass.create(_input)
         IN  Call("create", "", input, "")
    ELSE Call("findOne", "", iv.where, "")

\* ModelClass.findOne(...) and the like: a descriptor has no such method
CallOrm(iv) ==
    IF iv.handle.kind = "descriptor"
    THEN [iv EXCEPT !.pc = "done", !.result = Thrown("TypeError")]
    ELSE [iv EXCEPT !.pc = "awaitOrm", !.calls = Append(iv.calls, OrmCall(iv))]

\* AuthGate failing open: a model that requires authorization and has no
\* hook is treated as one that requires none
AuthGateFailOpen(iv, modelConfig) ==
    IF modelConfig.authRequired /\ modelConfig.authHandler # ""
    THEN [iv EXCEPT !.pc = "awaitAuth",
                    !.calls = Append(iv.calls,
                                     Call(modelConfig.authHandler, iv.req, iv.where,
                                          AuthTag(iv.op)))]
    ELSE CallOrm(iv)

\* the authorization block up to the await of the hook
AuthGate(iv, modelConfig) ==
    IF modelConfig.authRequired
    THEN IF modelConfig.authHandler = ""
         THEN [iv EXCEPT !.pc = "done", !.result = Thrown("Access denied")]
         ELSE [iv EXCEPT !.pc = "awaitAuth",
                         !.calls = Append(iv.calls,
                                          Call(modelConfig.authHandler, iv.req, iv.where,
                                               AuthTag(iv.op)))]
    ELSE CallOrm(iv)

\* a generated resolver, called with (parent, args, context), up to its first await
ResolverStart(op, modelName, args, req) ==
    LET ModelClass == getModelClass(modelName)
        modelConfig == ModelConfigOf(modelName)
        iv == [Idle EXCEPT !.by = "GraphQLHelper", !.op = op, !.model = modelName,
                           !.args = args, !.req = req,
                           !.handle = ModelClass, !.modelConfig = modelConfig,
                           !.where = InitialConditions(op, args)]
    IN  IF ModelClass.kind = "undefined"
        THEN [iv EXCEPT !.pc = "done", !.result = AbsentResult(op)]
        ELSE AuthGate(iv, modelConfig)

\* AuthRefused reading only the structured result: a boolean false passes
AuthRefusedStructuredOnly(authResult) ==
    IF authResult.legacy THEN FALSE ELSE ~authResult.success

\* the hook's result refuses: boolean false, or success false
AuthRefused(authResult) ==
    IF authResult.legacy THEN ~authResult.success ELSE ~authResult.success

\* MergeAuthWhere with the spread operands swapped: the caller's keys win
MergeAuthWhereCallerWins(op, where, authResult) ==
    IF ~authResult.legacy /\ op # "create" /\ Truthy(authResult.where)
    THEN Obj(Assign(Spread(authResult.where), Spread(where)))
    ELSE where

\* the conditions after the hook's result: its where merged over them
MergeAuthWhere(op, where, authResult) ==
    IF ~authResult.legacy /\ op # "create" /\ Truthy(authResult.where)
    THEN Obj(Assign(Spread(where), Spread(authResult.where)))
    ELSE where

\* the resolver from the hook's result to its next await
ResolverAfterAuth(iv, authResult) ==
    LET got == [iv EXCEPT !.authReturned = TRUE, !.authResult = authResult]
    IN  IF AuthRefused(authResult)
        THEN [got EXCEPT !.pc = "done", !.result = Thrown("Access denied")]
        ELSE CallOrm([got EXCEPT !.where = MergeAuthWhere(iv.op, iv.where, authResult)])

\* ResolverAfterOrm destroying whatever findOne gave: a delete of no row
\* calls destroy and answers true
ResolverAfterOrmDestroying(iv, found, rows) ==
    LET got == [iv EXCEPT !.instance = IF found THEN "row" ELSE "null"]
    IN  IF iv.op = "query"
        THEN [got EXCEPT !.pc = "done",
                         !.result = IF found THEN Returned("json", 1)
                                    ELSE Returned("null", 0)]
        ELSE IF iv.op = "list"
        THEN [got EXCEPT !.pc = "done", !.result = ReturnedList(rows, "json")]
        ELSE IF iv.op = "create"
        THEN [got EXCEPT !.pc = "done", !.result = Returned("instance", 1)]
        ELSE IF ~found /\ iv.op = "update"
        THEN [got EXCEPT !.pc = "done",
                         !.result = IF iv.op = "update" THEN Returned("null", 0)
                                    ELSE Returned("false", 0)]
        ELSE IF iv.op = "update"
        THEN [got EXCEPT !.pc = "awaitInstance",
                         !.calls = Append(iv.calls, Call("update", "", iv.args.input, ""))]
        ELSE [got EXCEPT !.pc = "awaitInstance",
                         !.calls = Append(iv.calls, Call("destroy", "", Undefined, ""))]

\* the resolver from the result of findOne, findAll or create on; found is
\* whether findOne gave a row, rows how many findAll gave. The read
\* resolvers hand back toJSON() outputs, create and update the instance
ResolverAfterOrm(iv, found, rows) ==
    LET got == [iv EXCEPT !.instance = IF found THEN "row" ELSE "null"]
    IN  IF iv.op = "query"
        THEN [got EXCEPT !.pc = "done",
                         !.result = IF found THEN Returned("json", 1)
                                    ELSE Returned("null", 0)]
        ELSE IF iv.op = "list"
        THEN [got EXCEPT !.pc = "done", !.result = ReturnedList(rows, "json")]
        ELSE IF iv.op = "create"
        THEN [got EXCEPT !.pc = "done", !.result = Returned("instance", 1)]
        ELSE IF ~found
        THEN [got EXCEPT !.pc = "done",
                         !.result = IF iv.op = "update" THEN Returned("null", 0)
                                    ELSE Returned("false", 0)]
        ELSE IF iv.op = "update"
        THEN [got EXCEPT !.pc = "awaitInstance",
                         !.calls = Append(iv.calls, Call("update", "", iv.args.input, ""))]
        ELSE [got EXCEPT !.pc = "awaitInstance",
                         !.calls = Append(iv.calls, Call("destroy", "", Undefined, ""))]

\* the resolver after instance.update(input) or instance.destroy()
ResolverAfterInstance(iv) ==
    [iv EXCEPT !.pc = "done",
               !.result = IF iv.op = "update" THEN Returned("instance", 1)
                          ELSE Returned("true", 0)]

\* the arguments the execution engine calls a resolver with
Ids == {"7"}
Wheres == {Undefined, Obj([status |-> "draft", ownerId |-> "u2"])}
Inputs == {Obj([title |-> "a"])}
Requests == {"req1"}

ArgsOf(op) ==
    IF op = "list"
    THEN {[NoArgs EXCEPT !.where = w, !.limit = p[1], !.offset = p[2], !.order = p[3]] :
            w \in Wheres, p \in {<<0, 0, "">>, <<10, 5, "id">>}}
    ELSE IF op = "create" THEN {[NoArgs EXCEPT !.input = i] : i \in Inputs}
    ELSE IF op = "update" THEN {[NoArgs EXCEPT !.id = id, !.input = i] : id \in Ids, i \in Inputs}
    ELSE {[NoArgs EXCEPT !.id = id] : id \in Ids}

\* the results the hooks return
AuthResults ==
    { [legacy |-> TRUE, success |-> TRUE, where |-> Undefined],
      [legacy |-> TRUE, success |-> FALSE, where |-> Undefined],
      AuthResult(FALSE, Undefined),
      AuthResult(FALSE, Obj([ownerId |-> "u1"])),
      AuthResult(TRUE, Undefined),
      AuthResult(TRUE, Obj([ownerId |-> "u1"])),
      AuthResult(TRUE, Obj([id |-> "9", ownerId |-> "u1"])) }

\* the generated CRUD resolvers the last schema holds
CrudResolvers ==
    IF ~schema.generated THEN {}
    ELSE {schema.resolvers[root][key] :
            <<root, key>> \in {rk \in {"Query", "Mutation"} \X UNION {DOMAIN schema.resolvers[r] : r \in {"Query", "Mutation"}} :
                                  /\ rk[2] \in DOMAIN schema.resolvers[rk[1]]
                                  /\ schema.resolvers[rk[1]][rk[2]].kind \in CrudKinds}}

registryAndSchema == <<registry, sequelize, schema, fresh, beyondHelper>>

\* the execution engine calls a generated resolver
Invoke ==
    /\ inv.pc \in {"idle", "done"}
    /\ \E r \in CrudResolvers : \E args \in ArgsOf(r.kind) : \E req \in Requests :
          inv' = ResolverStart(r.kind, r.of, args, req)
    /\ UNCHANGED registryAndSchema

\* the authorization hook returns
AuthReturns ==
    /\ inv.pc = "awaitAuth" /\ inv.by = "GraphQLHelper"
    /\ \E authResult \in AuthResults : inv' = ResolverAfterAuth(inv, authResult)
    /\ UNCHANGED registryAndSchema

\* findOne, findAll or create returns
OrmReturns ==
    /\ inv.pc = "awaitOrm" /\ inv.by = "GraphQLHelper"
    /\ \E found \in BOOLEAN : \E rows \in {0, 2} :
          /\ (inv.op = "list" => found) /\ (inv.op # "list" => rows = 0)
          /\ (inv.op = "create" => found)
          /\ inv' = ResolverAfterOrm(inv, found, rows)
    /\ UNCHANGED registryAndSchema

\* instance.update or instance.destroy returns
InstanceReturns ==
    /\ inv.pc = "awaitInstance" /\ inv.by = "GraphQLHelper"
    /\ inv' = ResolverAfterInstance(inv)
    /\ UNCHANGED registryAndSchema

\* the awaited hook or ORM call rejects: the resolver rejects with its error
AwaitRejects ==
    /\ inv.pc \in {"awaitAuth", "awaitOrm", "awaitInstance"}
    /\ inv' = [inv EXCEPT !.pc = "done",
                          !.result = Thrown(IF inv.pc = "awaitAuth" THEN "hook error"
                                            ELSE "orm error")]
    /\ UNCHANGED registryAndSchema

InitResolve == Constructed(SequelizeChoices)

NextResolve ==
    \/ AddModel /\ Len(models') <= MaxResolverModels
    \/ GetSchema
    \/ Invoke
    \/ AuthReturns
    \/ OrmReturns
    \/ InstanceReturns
    \/ AwaitRejects

SpecResolve == InitResolve /\ [][NextResolve]_vars

-----------------------------------------------------------------------------
(* generateGraphQLModelConfig and AbstractGraphQLModelConfig. A configura- *)
(* tion is a GQLModelConfig; NoMetadata stands for no configuration.       *)

\* entries a generated array of field names or model's metadata holds at most
MaxExcludeFields == 3

DefaultExcludeFields == <<"createdAt", "updatedAt">>
DefaultOperations == Operations(TRUE, FALSE, FALSE)

\* the array, the entries, behind an excludeFields or customFields value
ItemsOf(excludeFields) ==
    IF excludeFields.sharedWith # ""
    THEN classMetadata[excludeFields.sharedWith].excludeFields.items
    ELSE excludeFields.items

EntriesOf(customFields) ==
    IF customFields.sharedWith # ""
    THEN classMetadata[customFields.sharedWith].customFields.fields
    ELSE customFields.fields

getTypeName(config, modelName) == IF config.typeName # "" THEN config.typeName ELSE modelName
isExcluded(config) == config.exclude
getOperations(config) ==
    IF config.operations.defined THEN config.operations ELSE DefaultOperations
getCustomFields(config) ==
    IF config.customFields.defined THEN EntriesOf(config.customFields) ELSE << >>
getExcludeFields(config) ==
    IF config.excludeFields.defined THEN ItemsOf(config.excludeFields)
    ELSE DefaultExcludeFields

\* the options of generateGraphQLModelConfig: excludeFields, enableOperations
\* (an object of some of query, mutation, subscription), override (typeName)
NoOptions == [excludeFields |-> NoExcludeFields, enableOperations |-> EmptyObj,
              overrideTypeName |-> ""]

\* Array.from(new Set(items)): the first occurrence of each item, in order
RECURSIVE Distinct(_)
Distinct(items) ==
    IF items = << >> THEN << >>
    ELSE LET front == Distinct(SubSeq(items, 1, Len(items) - 1))
             last == items[Len(items)]
         IN  IF \E i \in 1..Len(front) : front[i] = last THEN front
             ELSE Append(front, last)

\* { query: true, mutation: false, subscription: false, ...enableOperations }
MergedOperations(enableOperations) ==
    LET on(k, default) == IF k \in DOMAIN enableOperations THEN enableOperations[k]
                          ELSE default
    IN  Operations(on("query", TRUE), on("mutation", FALSE), on("subscription", FALSE))

\* obj[name] = value on the entries of an object: a key keeps its place
SetEntry(entries, name, value) ==
    IF \E i \in 1..Len(entries) : entries[i].name = name
    THEN [i \in 1..Len(entries) |->
            IF entries[i].name = name THEN [name |-> name, config |-> value]
            ELSE entries[i]]
    ELSE Append(entries, [name |-> name, config |-> value])

\* the loop over the field metadata: what it pushes to config.excludeFields
\* and sets in config.customFields, from the values they hold before it
RECURSIVE FieldLoop(_, _, _, _, _)
FieldLoop(names, fieldMeta, exclude, excludeFields, customFields) ==
    IF names = << >> THEN [excludeFields |-> excludeFields, customFields |-> customFields]
    ELSE LET fieldName == Head(names)
             fieldConfig == fieldMeta[fieldName]
         IN  IF \E i \in 1..Len(exclude) : exclude[i] = fieldName
             THEN FieldLoop(Tail(names), fieldMeta, exclude,
                            Append(excludeFields, fieldName), customFields)
             ELSE IF fieldConfig.exclude
             THEN FieldLoop(Tail(names), fieldMeta, exclude,
                            Append(excludeFields, fieldName), customFields)
             ELSE IF fieldConfig.resolver # "" \/ fieldConfig.customType # ""
             THEN FieldLoop(Tail(names), fieldMeta, exclude, excludeFields,
                            SetEntry(customFields, fieldName, fieldConfig))
             ELSE FieldLoop(Tail(names), fieldMeta, exclude, excludeFields, customFields)

\* what the field loop of generateGraphQLModelConfig(modelClass, options)
\* leaves in config.excludeFields and config.customFields
LoopedFields(modelClass, options) ==
    LET fieldMeta == getGQLFields(modelClass)
        modelMeta == getGQLModelMetadata(modelClass)
        exclude == Distinct(IF options.excludeFields.defined THEN options.excludeFields.items
                            ELSE DefaultExcludeFields)
    IN  FieldLoop(modelClass.gqlFieldOrder, fieldMeta, exclude,
                  IF modelMeta.excludeFields.defined THEN modelMeta.excludeFields.items
                  ELSE exclude,
                  IF modelMeta.customFields.defined THEN modelMeta.customFields.fields
                  ELSE << >>)

\* the configuration generateGraphQLModelConfig(modelClass, options) returns:
\* the literal, then ...options.override, then ...modelMeta, then the loop.
\* An array or object the metadata holds is taken as it is, not copied
GeneratedConfig(modelClass, options) ==
    LET modelMeta == getGQLModelMetadata(modelClass)
        looped == LoopedFields(modelClass, options)
    IN  [defined |-> TRUE,
         typeName |-> IF modelMeta.typeName # "" THEN modelMeta.typeName
                      ELSE IF options.overrideTypeName # "" THEN options.overrideTypeName
                      ELSE modelClass.name,
         description |-> modelMeta.description,
         exclude |-> modelMeta.exclude,
         operations |-> IF modelMeta.operations.defined THEN modelMeta.operations
                        ELSE MergedOperations(options.enableOperations),
         authRequired |-> modelMeta.authRequired,
         authHandler |-> modelMeta.authHandler,
         excludeFields |->
             IF modelMeta.excludeFields.defined
             THEN [defined |-> TRUE, items |-> << >>, sharedWith |-> modelClass.ref]
             ELSE ExcludeFields(looped.excludeFields),
         customFields |->
             IF modelMeta.customFields.defined
             THEN [defined |-> TRUE, fields |-> << >>, sharedWith |-> modelClass.ref]
             ELSE CustomFields(looped.customFields)]

\* the metadata of the classes after generateGraphQLModelConfig(modelClass,
\* options): its pushes and sets land in the arrays and objects it shares
MetadataAfterGenerate(modelClass, options) ==
    LET modelMeta == classMetadata[modelClass.ref]
        looped == LoopedFields(modelClass, options)
    IN  IF ~modelMeta.defined THEN classMetadata
        ELSE [classMetadata EXCEPT
                 ![modelClass.ref].excludeFields.items =
                     IF modelMeta.excludeFields.defined THEN looped.excludeFields ELSE @,
                 ![modelClass.ref].customFields.fields =
                     IF modelMeta.customFields.defined THEN looped.customFields ELSE @]

-----------------------------------------------------------------------------
(* GraphQLSchemaGenerator: type definitions. typeDefs is the sequence of   *)
(* its lines, each line a string.                                          *)

sequelizeToGraphQLTypes ==
    [STRING |-> "String", TEXT |-> "String", INTEGER |-> "Int", BIGINT |-> "Int",
     FLOAT |-> "Float", DOUBLE |-> "Float", DECIMAL |-> "Float", BOOLEAN |-> "Boolean",
     DATE |-> "String", DATEONLY |-> "String", TIME |-> "String", JSON |-> "JSON",
     JSONB |-> "JSON", UUID |-> "String", ENUM |-> "String"]

\* modelConfigs.get(modelName), NoMetadata when there is none
GeneratorConfigOf(modelName) ==
    IF modelName \in DOMAIN generator.modelConfigs THEN generator.modelConfigs[modelName]
    ELSE NoMetadata

\* Array.prototype.includes
Includes(items, item) == \E i \in 1..Len(items) : items[i] = item

\* str.replace('!', ''): the first '!' is dropped
DropFirstBang(str) ==
    IF \E i \in 1..Len(str) : SubSeq(str, i, i) = "!"
    THEN LET i == CHOOSE j \in 1..Len(str) :
                     /\ SubSeq(str, j, j) = "!"
                     /\ \A k \in 1..(j - 1) : SubSeq(str, k, k) # "!"
         IN  SubSeq(str, 1, i - 1) \o SubSeq(str, i + 1, Len(str))
    ELSE str

isModelExcluded(modelName) ==
    isExcluded(GeneratorConfigOf(modelName)) \/ Includes(generator.blackList, modelName)

isFieldExcluded(modelName, fieldName, config) ==
    \/ Includes(getExcludeFields(config), fieldName)
    \/ Includes(generator.blackList, modelName \o "." \o fieldName)
    \/ Includes(generator.blackList, fieldName)

getGraphQLType(attribute, fieldConfig) ==
    LET sequelizeType == attribute.type
        mapped == IF sequelizeType \in DOMAIN sequelizeToGraphQLTypes
                  THEN sequelizeToGraphQLTypes[sequelizeType] ELSE "String"
        listed == IF fieldConfig.list = "true" THEN "[" \o mapped \o "]" ELSE mapped
    IN  IF fieldConfig.customType # "" THEN fieldConfig.customType
        ELSE IF fieldConfig.nullable # "true" /\ attribute.allowNull # "true"
        THEN listed \o "!"
        ELSE listed

\* "" stands for the null getAssociationType returns
getAssociationType(association) ==
    LET targetModel == association.target
    IN  IF targetModel = "" THEN ""
        ELSE IF association.associationType \in {"HasOne", "BelongsTo"} THEN targetModel
        ELSE IF association.associationType \in {"HasMany", "BelongsToMany"}
        THEN "[" \o targetModel \o "]"
        ELSE ""

RECURSIVE GeneratorAttributeLines(_, _, _, _)
GeneratorAttributeLines(model, attrs, config, forInput) ==
    IF attrs = << >> THEN << >>
    ELSE LET a == Head(attrs)
             fieldConfig == FieldConfigOf(getGQLFields(model), a.name)
             graphqlType == getGraphQLType(a, fieldConfig)
             rest == GeneratorAttributeLines(model, Tail(attrs), config, forInput)
         IN  IF isFieldExcluded(model.name, a.name, config) THEN rest
             ELSE IF forInput /\ a.name = "id" THEN rest
             ELSE << "  " \o a.name \o ": "
                     \o (IF forInput THEN DropFirstBang(graphqlType) ELSE graphqlType) >>
                  \o rest

RECURSIVE GeneratorAssociationLines(_, _, _)
GeneratorAssociationLines(model, assocs, config) ==
    IF assocs = << >> THEN << >>
    ELSE LET a == Head(assocs)
             assocType == getAssociationType(a)
             rest == GeneratorAssociationLines(model, Tail(assocs), config)
         IN  IF isFieldExcluded(model.name, a.name, config) THEN rest
             ELSE IF assocType = "" THEN rest
             ELSE << "  " \o a.name \o ": " \o assocType >> \o rest

GeneratorCustomFieldLines(config) ==
    LET customFields == getCustomFields(config)
    IN  [i \in 1..Len(customFields) |->
            "  " \o customFields[i].name \o ": "
            \o (IF customFields[i].config.customType # ""
                THEN customFields[i].config.customType ELSE "String")]

generateInputTypes(model, config) ==
    LET typeName == getTypeName(config, model.name)
    IN  << "input " \o typeName \o "Input {" >>
        \o GeneratorAttributeLines(model, model.rawAttributes, config, TRUE)
        \o << "}", "" >>

toCamelCase(str) == QueryName(str)

generateModelOperations(model, config) ==
    LET typeName == getTypeName(config, model.name)
        operations == getOperations(config)
        camel == toCamelCase(model.name)
    IN  (IF operations.query
         THEN << "extend type Query {",
                 "  " \o camel \o "(id: String!): " \o typeName,
                 "  " \o camel \o "List(limit: Int, offset: Int, where: JSON): ["
                     \o typeName \o "]",
                 "  " \o camel \o "Count(where: JSON): Int",
                 "}", "" >>
         ELSE << >>)
        \o (IF operations.mutation
            THEN << "extend type Mutation {",
                    "  create" \o typeName \o "(input: " \o typeName \o "Input!): " \o typeName,
                    "  update" \o typeName \o "(id: String!, input: " \o typeName
                        \o "Input!): " \o typeName,
                    "  delete" \o typeName \o "(id: String!): Boolean",
                    "}", "" >>
            ELSE << >>)
        \o (IF operations.subscription
            THEN << "extend type Subscription {",
                    "  " \o camel \o "Updated(id: String): " \o typeName,
                    "}", "" >>
            ELSE << >>)

generateModelTypeDef(model, config) ==
    LET typeName == getTypeName(config, model.name)
    IN  << "type " \o typeName \o " {" >>
        \o GeneratorAttributeLines(model, model.rawAttributes, config, FALSE)
        \o GeneratorAssociationLines(model, model.associations, config)
        \o GeneratorCustomFieldLines(config)
        \o << "}", "" >>
        \o generateInputTypes(model, config)
        \o generateModelOperations(model, config)

generateBaseTypeDefs ==
    << "scalar JSON", "scalar DateTime", "",
       "type Query {", "  _health: String", "}", "",
       "type Mutation {", "  _dummy: String", "}", "",
       "type Subscription {", "  _dummy: String", "}", "" >>

-----------------------------------------------------------------------------
(* GraphQLSchemaGenerator: resolvers, registration and generateSchema.     *)

\* a resolver closure of the generator: its kind, the model class it holds
\* and the type name in its messages
GeneratorResolver(kind, model, typeName) ==
    [kind |-> kind, of |-> model.name, typeName |-> typeName]

\* mergeObjects(target, source) on resolver maps: an object of source is
\* merged into target's (or into a new {}), a function is assigned
mergeObjects(target, source) ==
    [k \in (DOMAIN target) \cup (DOMAIN source) |->
        IF k \in DOMAIN source THEN Assign(Get(target, k), source[k]) ELSE target[k]]

RECURSIVE GeneratorAssociationResolvers(_, _, _, _)
GeneratorAssociationResolvers(model, assocs, config, typeName) ==
    IF assocs = << >> THEN EmptyObj
    ELSE LET a == Head(assocs)
             rest == GeneratorAssociationResolvers(model, Tail(assocs), config, typeName)
         IN  IF isFieldExcluded(model.name, a.name, config) THEN rest
             ELSE Assign([k \in {a.name} |-> GeneratorResolver("association", model, typeName)],
                         rest)

RECURSIVE GeneratorCustomFieldResolvers(_)
GeneratorCustomFieldResolvers(customFields) ==
    IF customFields = << >> THEN EmptyObj
    ELSE LET f == Head(customFields)
             rest == GeneratorCustomFieldResolvers(Tail(customFields))
         IN  IF f.config.resolver # ""
             THEN Assign([k \in {f.name} |-> Custom(f.config.resolver)], rest)
             ELSE rest

GeneratorFieldResolvers(model, config) ==
    Assign(GeneratorAssociationResolvers(model, model.associations, config,
                                         getTypeName(config, model.name)),
           GeneratorCustomFieldResolvers(getCustomFields(config)))

generateModelResolvers(model, config) ==
    LET typeName == getTypeName(config, model.name)
        operations == getOperations(config)
        camel == toCamelCase(model.name)
        r(kind) == GeneratorResolver(kind, model, typeName)
        typed == [k \in {typeName} |-> GeneratorFieldResolvers(model, config)]
        queries == IF operations.query
                   THEN [k \in {"Query"} |->
                           Assign(Assign([n \in {camel} |-> r("query")],
                                         [n \in {camel \o "List"} |-> r("list")]),
                                  [n \in {camel \o "Count"} |-> r("count")])]
                   ELSE EmptyObj
        mutations == IF operations.mutation
                     THEN [k \in {"Mutation"} |->
                             Assign(Assign([n \in {"create" \o typeName} |-> r("create")],
                                           [n \in {"update" \o typeName} |-> r("update")]),
                                    [n \in {"delete" \o typeName} |-> r("delete")])]
                     ELSE EmptyObj
    IN  Assign(Assign(typed, queries), mutations)

RECURSIVE GeneratorModelLines(_)
GeneratorModelLines(ms) ==
    IF ms = << >> THEN << >>
    ELSE LET model == Head(ms)
         IN  (IF isModelExcluded(model.name) THEN << >>
              ELSE generateModelTypeDef(model, GeneratorConfigOf(model.name)))
             \o GeneratorModelLines(Tail(ms))

RECURSIVE GeneratorModelResolvers(_, _)
GeneratorModelResolvers(resolvers, ms) ==
    IF ms = << >> THEN resolvers
    ELSE LET model == Head(ms)
             merged == IF isModelExcluded(model.name) THEN resolvers
                       ELSE mergeObjects(resolvers,
                                         generateModelResolvers(model,
                                                                GeneratorConfigOf(model.name)))
         IN  GeneratorModelResolvers(merged, Tail(ms))

\* the { typeDefs, resolvers } generateSchema() returns
GeneratedSchema ==
    [generated |-> TRUE,
     typeDefs |-> generateBaseTypeDefs \o GeneratorModelLines(generator.models)
                  \o generator.customTypes,
     resolvers |-> mergeObjects(GeneratorModelResolvers([k \in RootKeys |-> EmptyObj],
                                                        generator.models),
                                generator.customResolvers)]

\* what the generator holds: the measure its bound is stated on
MaxGeneratorItems == 1

GeneratorSize ==
    Len(generator.models) + Len(generator.customTypes) + Len(generator.blackList)
    + (IF generator.customResolvers = EmptyObj THEN 0 ELSE 1)

\* the options generateGraphQLModelConfig is called with
GenerateOptions ==
    { NoOptions,
      [excludeFields |-> ExcludeFields(<<"title">>),
       enableOperations |-> [mutation |-> TRUE], overrideTypeName |-> "Entry"] }

\* the model classes handed to the generator's addModel
GeneratorClasses == {PostClass, UserClass, SecretClass, HiddenClass}

\* the item lists handed to the generator's addToBlackList
GeneratorBlackLists == { <<"Post.title">>, <<"id", "User">> }

generatorAddModel(model, given, config) ==
    generator' = [generator EXCEPT
                     !.models = MapSet(generator.models, model),
                     !.modelConfigs = IF given THEN Put(generator.modelConfigs, model.name, config)
                                      ELSE @]

\* generator.addModel(model)
GeneratorAddModel ==
    /\ \E model \in GeneratorClasses : generatorAddModel(model, FALSE, NoMetadata)
    /\ UNCHANGED <<registry, sequelize, schema, fresh, inv, classMetadata, generatorSchema, pool, app>>

\* generator.addModel(model, generateGraphQLModelConfig(model, options))
GeneratorAddModelWithConfig ==
    /\ \E model \in GeneratorClasses : \E options \in GenerateOptions :
          /\ generatorAddModel(model, TRUE, GeneratedConfig(model, options))
          /\ classMetadata' = MetadataAfterGenerate(model, options)
    /\ \A r \in DOMAIN classMetadata' :
          Len(classMetadata'[r].excludeFields.items) <= MaxExcludeFields
    /\ UNCHANGED <<registry, sequelize, schema, fresh, inv, generatorSchema, pool, app>>

addResolvers(resolvers) ==
    /\ generator' = [generator EXCEPT
                        !.customResolvers = mergeObjects(generator.customResolvers, resolvers)]
    /\ UNCHANGED <<registry, sequelize, schema, fresh, inv, classMetadata, generatorSchema, pool, app>>

addCustomType(typeDef) ==
    /\ generator' = [generator EXCEPT !.customTypes = Append(generator.customTypes, typeDef)]
    /\ UNCHANGED <<registry, sequelize, schema, fresh, inv, classMetadata, generatorSchema, pool, app>>

generatorAddToBlackList(items) ==
    /\ generator' = [generator EXCEPT !.blackList = generator.blackList \o items]
    /\ UNCHANGED <<registry, sequelize, schema, fresh, inv, classMetadata, generatorSchema, pool, app>>

generateSchema ==
    /\ generatorSchema' = GeneratedSchema
    /\ UNCHANGED <<registry, sequelize, schema, fresh, inv, classMetadata, generator, pool, app>>

AddResolvers == \E r \in CustomResolverItems : addResolvers(r)
AddCustomType == \E t \in CustomTypeItems : addCustomType(t)
GeneratorAddToBlackList == \E items \in GeneratorBlackLists : generatorAddToBlackList(items)
GenerateSchema == generateSchema

-----------------------------------------------------------------------------
(* The resolvers GraphQLSchemaGenerator generates. Each holds the model    *)
(* class it was generated for.                                             *)

GeneratorKinds == {"query", "list", "count", "create", "update", "delete"}

\* the options of findAll and count: a key is set when its argument is truthy
GeneratorOptions(fn, args, withPaging) ==
    [Call(fn, "", IF Truthy(args.where) THEN args.where ELSE Undefined, "") EXCEPT
        !.limit = IF withPaging THEN args.limit ELSE 0,
        !.offset = IF withPaging THEN args.offset ELSE 0]

\* a resolver of the generator, called with (parent, args, context), up to
\* its first await
GeneratorStart(resolver, args, req) ==
    LET iv == [Idle EXCEPT !.by = "GraphQLSchemaGenerator", !.op = resolver.kind,
                           !.model = resolver.of, !.typeName = resolver.typeName,
                           !.args = args, !.req = req,
                           !.handle = [kind |-> "class", name |-> resolver.of],
                           !.pc = "awaitOrm"]
        findByPk == [Call("findByPk", "", Undefined, "") EXCEPT !.id = args.id]
    IN  [iv EXCEPT !.calls =
            << IF resolver.kind = "list" THEN GeneratorOptions("findAll", args, TRUE)
               ELSE IF resolver.kind = "count" THEN GeneratorOptions("count", args, FALSE)
               ELSE IF resolver.kind = "create" THEN Call("create", "", args.input, "")
               ELSE findByPk >>]

\* GeneratorAfterOrm answering null and false when findByPk gave no row
GeneratorAfterOrmQuiet(iv, found, rows) ==
    LET got == [iv EXCEPT !.instance = IF found THEN "row" ELSE "null"]
    IN  IF iv.op \in {"update", "delete"} /\ ~found
        THEN [got EXCEPT !.pc = "done",
                         !.result = IF iv.op = "update" THEN Returned("null", 0)
                                    ELSE Returned("false", 0)]
        ELSE IF iv.op = "update"
        THEN [got EXCEPT !.pc = "awaitInstance",
                         !.calls = Append(iv.calls, Call("update", "", iv.args.input, ""))]
        ELSE IF iv.op = "delete"
        THEN [got EXCEPT !.pc = "awaitInstance",
                         !.calls = Append(iv.calls, Call("destroy", "", Undefined, ""))]
        ELSE IF iv.op = "list"
        THEN [got EXCEPT !.pc = "done", !.result = ReturnedList(rows, "instance")]
        ELSE IF iv.op = "count"
        THEN [got EXCEPT !.pc = "done", !.result = Returned("number", rows)]
        ELSE [got EXCEPT !.pc = "done",
                         !.result = IF found THEN Returned("instance", 1)
                                    ELSE Returned("null", 0)]

\* the resolver from the result of findByPk, findAll, count or create on:
\* the read resolvers hand back what the ORM gave, update and delete throw
\* when there is no row
GeneratorAfterOrm(iv, found, rows) ==
    LET got == [iv EXCEPT !.instance = IF found THEN "row" ELSE "null"]
    IN  IF iv.op \in {"update", "delete"} /\ ~found
        THEN [got EXCEPT !.pc = "done", !.result = Thrown(iv.typeName \o " not found")]
        ELSE IF iv.op = "update"
        THEN [got EXCEPT !.pc = "awaitInstance",
                         !.calls = Append(iv.calls, Call("update", "", iv.args.input, ""))]
        ELSE IF iv.op = "delete"
        THEN [got EXCEPT !.pc = "awaitInstance",
                         !.calls = Append(iv.calls, Call("destroy", "", Undefined, ""))]
        ELSE IF iv.op = "list"
        THEN [got EXCEPT !.pc = "done", !.result = ReturnedList(rows, "instance")]
        ELSE IF iv.op = "count"
        THEN [got EXCEPT !.pc = "done", !.result = Returned("number", rows)]
        ELSE [got EXCEPT !.pc = "done",
                         !.result = IF found THEN Returned("instance", 1)
                                    ELSE Returned("null", 0)]

\* the resolver after instance.update(args.input) or instance.destroy()
GeneratorAfterInstance(iv) ==
    [iv EXCEPT !.pc = "done",
               !.result = IF iv.op = "update" THEN Returned("instance", 1)
                          ELSE Returned("true", 0)]

GeneratorArgsOf(op) ==
    IF op = "count" THEN {[NoArgs EXCEPT !.where = w] : w \in Wheres} ELSE ArgsOf(op)

\* the CRUD resolvers the last generated schema holds
GeneratorCrudResolvers ==
    IF ~generatorSchema.generated THEN {}
    ELSE UNION { {generatorSchema.resolvers[root][key] :
                    key \in {k \in DOMAIN generatorSchema.resolvers[root] :
                               generatorSchema.resolvers[root][k].kind \in GeneratorKinds}} :
                 root \in {"Query", "Mutation"} }

helperAndGenerator == <<registry, sequelize, schema, fresh, beyondHelper>>

\* the execution engine calls a resolver of the generator
GeneratorInvoke ==
    /\ inv.pc \in {"idle", "done"}
    /\ \E r \in GeneratorCrudResolvers : \E args \in GeneratorArgsOf(r.kind) :
          \E req \in Requests : inv' = GeneratorStart(r, args, req)
    /\ UNCHANGED helperAndGenerator

\* findByPk, findAll, count or create returns
GeneratorOrmReturns ==
    /\ inv.pc = "awaitOrm" /\ inv.by = "GraphQLSchemaGenerator"
    /\ \E found \in BOOLEAN : \E rows \in {0, 2} :
          /\ (inv.op \in {"list", "count", "create"} => found)
          /\ (inv.op \notin {"list", "count"} => rows = 0)
          /\ inv' = GeneratorAfterOrm(inv, found, rows)
    /\ UNCHANGED helperAndGenerator

\* instance.update or instance.destroy returns
GeneratorInstanceReturns ==
    /\ inv.pc = "awaitInstance" /\ inv.by = "GraphQLSchemaGenerator"
    /\ inv' = GeneratorAfterInstance(inv)
    /\ UNCHANGED helperAndGenerator

NextGenerator ==
    \/ GeneratorAddModel /\ GeneratorSize' <= MaxGeneratorItems
    \/ GeneratorAddModelWithConfig /\ GeneratorSize' <= MaxGeneratorItems
    \/ AddResolvers /\ GeneratorSize' <= MaxGeneratorItems
    \/ AddCustomType /\ GeneratorSize' <= MaxGeneratorItems
    \/ GeneratorAddToBlackList /\ GeneratorSize' <= MaxGeneratorItems
    \/ GenerateSchema
    \/ GeneratorInvoke
    \/ GeneratorOrmReturns
    \/ GeneratorInstanceReturns
    \/ AwaitRejects

SpecGenerator == Init /\ [][NextGenerator]_vars

\* models a GraphQLHelper and a GraphQLSchemaGenerator hold together at most
MaxBothModels == 1

BothSize == Len(models) + Len(generator.models)

\* a GraphQLHelper and a GraphQLSchemaGenerator side by side, each with the
\* resolvers it generated
NextBoth ==
    \/ AddModel /\ BothSize' <= MaxBothModels
    \/ GetSchema
    \/ Invoke
    \/ AuthReturns
    \/ OrmReturns
    \/ InstanceReturns
    \/ GeneratorAddModel /\ BothSize' <= MaxBothModels
    \/ GeneratorAddModelWithConfig /\ BothSize' <= MaxBothModels
    \/ GenerateSchema
    \/ GeneratorInvoke
    \/ GeneratorOrmReturns
    \/ GeneratorInstanceReturns
    \/ AwaitRejects

SpecBoth == InitResolve /\ [][NextBoth]_vars

-----------------------------------------------------------------------------
(* Properties of the generated resolvers, checked under SpecResolve.       *)

OrmFunctions == {"findOne", "findAll", "create", "update", "destroy"}

\* the positions in the calls of an invocation of the calls to the ORM, to the hook
OrmCallsOf(iv) == {i \in 1..Len(iv.calls) : iv.calls[i].fn \in OrmFunctions}
HookCallsOf(iv) == {i \in 1..Len(iv.calls) : iv.calls[i].fn \notin OrmFunctions}

AccessDenied(iv) ==
    iv.pc = "done" /\ iv.result.status = "thrown" /\ iv.result.message = "Access denied"

\* a resolver was called on a model that requires authorization and has no hook
CalledWithoutHandler ==
    inv.pc # "idle" /\ inv.modelConfig.authRequired /\ inv.modelConfig.authHandler = ""

\* C1 as stated: on a model with authRequired and no authHandler every call of
\* a generated CRUD resolver fails with 'Access denied' and calls no ORM method.
C1_DeniedWithoutHandler ==
    CalledWithoutHandler => AccessDenied(inv) /\ OrmCallsOf(inv) = {}

\* C1 amended: on such a model no call of a generated CRUD resolver reaches the
\* hook or the ORM; it fails with 'Access denied' when getModelClass resolves a
\* handle, and returns null, [] or false without error when it resolves none.
C1_DeniedWithoutHandlerWhenResolved ==
    CalledWithoutHandler =>
        /\ inv.pc = "done"
        /\ inv.calls = << >>
        /\ inv.handle.kind # "undefined" => AccessDenied(inv)
        /\ inv.handle.kind = "undefined" =>
              /\ inv.result.status = "returned"
              /\ inv.result.rows = 0
              /\ inv.result.kind = (IF inv.op = "list" THEN "list"
                                    ELSE IF inv.op = "delete" THEN "false" ELSE "null")

C1_Witness ==
    CalledWithoutHandler /\ inv.handle.kind = "class" /\ inv.op = "list" /\ AccessDenied(inv)

\* C2: when the hook returns boolean false or a result with success false, the
\* resolver fails with 'Access denied' and no ORM read or write happens.
C2_RefusalDenies ==
    (inv.authReturned /\ ~inv.authResult.success) =>
        AccessDenied(inv) /\ OrmCallsOf(inv) = {}

C2_Witness ==
    /\ inv.authReturned /\ inv.authResult.legacy /\ ~inv.authResult.success
    /\ inv.op = "update" /\ inv.handle.kind = "class" /\ AccessDenied(inv)

\* the conditions the caller supplied: { id }, or the list's where argument
CallerConditions(iv) ==
    IF iv.op = "list" THEN Spread(iv.args.where) ELSE [id |-> iv.args.id]

\* the hook returned { success: true, where: W }
HookGaveWhere(iv) ==
    /\ iv.authReturned /\ ~iv.authResult.legacy /\ iv.authResult.success
    /\ iv.authResult.where.t = "object"

\* C3: for single fetch, list fetch, update and delete, when the hook returns
\* {success: true, where: W} the where passed to findOne or findAll has exactly
\* the caller's keys and W's, W's value on W's keys and the caller's elsewhere.
C3_HookWhereMerged ==
    \A i \in 1..Len(inv.calls) :
        (inv.calls[i].fn \in {"findOne", "findAll"} /\ HookGaveWhere(inv)) =>
            LET W == inv.authResult.where.m
                caller == CallerConditions(inv)
                passed == inv.calls[i].arg
            IN  /\ passed.t = "object"
                /\ DOMAIN passed.m = (DOMAIN W) \cup (DOMAIN caller)
                /\ \A k \in DOMAIN W : passed.m[k] = W[k]
                /\ \A k \in (DOMAIN caller) \ (DOMAIN W) : passed.m[k] = caller[k]

C3_Witness ==
    /\ inv.op = "list" /\ HookGaveWhere(inv)
    /\ inv.args.where = Obj([status |-> "draft", ownerId |-> "u2"])
    /\ inv.authResult.where = Obj([ownerId |-> "u1"])
    /\ \E i \in 1..Len(inv.calls) :
          /\ inv.calls[i].fn = "findAll"
          /\ inv.calls[i].arg = Obj([status |-> "draft", ownerId |-> "u1"])

\* C4: the create resolver calls the ORM's create with the input of its arguments.
C4_CreateGetsInput ==
    \A i \in 1..Len(inv.calls) :
        inv.calls[i].fn = "create" => inv.calls[i].arg = inv.args.input

\* a resolver was called on a model that requires authorization and has a hook
CalledWithHandler ==
    inv.pc # "idle" /\ inv.modelConfig.authRequired /\ inv.modelConfig.authHandler # ""

\* the one call of the hook C5 describes, first among the calls of the invocation
HookCalledOnceFirst(iv) ==
    /\ HookCallsOf(iv) = {1}
    /\ iv.calls[1].fn = iv.modelConfig.authHandler
    /\ iv.calls[1].req = iv.req
    /\ iv.calls[1].arg = (IF iv.op = "list" THEN iv.args.where
                          ELSE IF iv.op = "create" THEN iv.args.input
                          ELSE Obj([id |-> iv.args.id]))
    /\ iv.calls[1].tag = (IF iv.op \in {"query", "list"} THEN "query" ELSE iv.op)

-----------------------------------------------------------------------------
(* Properties of the generated schema, checked under Spec. The typeDefs    *)
(* are read back line by line, as a reader of the SDL text would.          *)

IsFieldLine(line) == Len(line) = 4 /\ line[1] = "  " /\ line[3] = ": "

\* the names of the fields of the block of typeDefs td that starts with header
BlockFields(td, header) ==
    { td[j][2] : j \in { j \in 1..Len(td) :
        /\ IsFieldLine(td[j])
        /\ \E i \in 1..(j - 1) :
              /\ td[i] = header
              /\ \A k \in (i + 1)..(j - 1) : td[k] # <<"}">> } }

TypeHeader(modelName) == <<"type ", modelName, " {">>
InputHeader(modelName) == <<"input ", modelName, "Input {">>

HasLine(td, line) == \E i \in 1..Len(td) : td[i] = line

\* the root fields generated for a model, by operation kind
QueryLinesOf(M) ==
    { <<"  ", QueryName(M), "(id: String!): ", M>>,
      <<"  ", QueryName(M) \o "List",
        "(where: JSON, limit: Int, offset: Int, order: String): [", M, "]">> }
MutationLinesOf(M) ==
    { <<"  ", "create" \o M, "(input: ", M \o "Input", "!): ", M>>,
      <<"  ", "update" \o M, "(id: String!, input: ", M \o "Input", "!): ", M>>,
      <<"  ", "delete" \o M, "(id: String!): Boolean">> }
SubscriptionLinesOf(M) ==
    { <<"  ", QueryName(M) \o "Created", ": ", M>>,
      <<"  ", QueryName(M) \o "Updated", ": ", M>>,
      <<"  ", QueryName(M) \o "Deleted", "(id: String!): ", M>> }
RootLinesOf(M) == QueryLinesOf(M) \cup MutationLinesOf(M) \cup SubscriptionLinesOf(M)

\* the resolvers of a resolver map that were generated for model M
GeneratedResolversOf(resolvers, M) ==
    { r \in UNION { { resolvers[k][f] : f \in DOMAIN resolvers[k] } : k \in DOMAIN resolvers } :
        \/ r.kind \in CrudKinds /\ r.of = M
        \/ r.kind = "field" /\ \E c \in ModelClasses : \E i \in 1..Len(c.associations) :
              c.name = M /\ r.of = M \o "." \o c.associations[i].name }

\* a schema holds nothing of model M: no type, no input, no root field, no resolver
NothingOf(sch, M) ==
    /\ ~HasLine(sch.typeDefs, TypeHeader(M))
    /\ ~HasLine(sch.typeDefs, InputHeader(M))
    /\ \A line \in RootLinesOf(M) : ~HasLine(sch.typeDefs, line)
    /\ GeneratedResolversOf(sch.resolvers, M) = {}
    /\ M \in DOMAIN sch.resolvers =>
          \A f \in DOMAIN sch.resolvers[M] : sch.resolvers[M][f].kind = "custom"

RegisteredNames == {models[i].name : i \in 1..Len(models)}

\* C6: a model handed to addModel with the exclude flag, or with no model
\* metadata at all, leaves nothing in the schema getSchema() returns.
C6_ExcludedOrUndecoratedAbsent ==
    schema.generated =>
        \A c \in ModelClasses :
            (c.gqlModel.exclude \/ ~c.gqlModel.defined) => NothingOf(schema, c.name)

\* the fields of a registered model: its attributes and its associations
FieldNamesOf(model) ==
    {model.attributes[i].name : i \in 1..Len(model.attributes)}
    \cup {model.associations[i].name : i \in 1..Len(model.associations)}

PassesWhiteList(M) == whiteList = {} \/ M \in whiteList

\* C7: for a registered model M that passes the whitelist, a field f with
\* 'M.f', 'f' or 'M' in the blacklist is in neither type M nor input MInput,
\* and a field no entry matches, not excluded by its field metadata, is in type M.
C7_BlacklistedFieldsOmitted ==
    fresh =>
        \A i \in 1..Len(models) :
            LET M == models[i].name
                fieldConfigs == modelMetadata[M].fieldConfigs
                inType == BlockFields(schema.typeDefs, TypeHeader(M))
                inInput == BlockFields(schema.typeDefs, InputHeader(M))
            IN  PassesWhiteList(M) =>
                    \A f \in FieldNamesOf(models[i]) :
                        IF (M \o "." \o f) \in blackList \/ f \in blackList \/ M \in blackList
                        THEN f \notin inType /\ f \notin inInput
                        ELSE (f \in DOMAIN fieldConfigs /\ fieldConfigs[f].exclude)
                             \/ f \in inType

C7_Witness ==
    /\ fresh /\ blackList = {"Post.title"} /\ "Post" \in RegisteredNames
    /\ BlockFields(schema.typeDefs, TypeHeader("Post")) = {"id", "authorId", "author"}
    /\ BlockFields(schema.typeDefs, InputHeader("Post")) = {"id", "authorId"}

\* the operation kinds enabled for a registered model
EnabledLinesOf(M) ==
    LET operations == modelMetadata[M].modelConfig.operations
        on(kind) == ~operations.defined \/ operations[kind]
    IN  (IF on("query") THEN QueryLinesOf(M) ELSE {})
        \cup (IF on("mutation") THEN MutationLinesOf(M) ELSE {})
        \cup (IF on("subscription") THEN SubscriptionLinesOf(M) ELSE {})

\* C8: with a non-empty whitelist getSchema() emits a type, an input, root
\* fields and generated resolvers only for the registered models named in it;
\* with an empty whitelist it emits every registered model.
C8_WhiteListFilters ==
    fresh =>
        /\ \A M \in ModelNames :
              ~(M \in RegisteredNames /\ PassesWhiteList(M)) => NothingOf(schema, M)
        /\ \A M \in RegisteredNames :
              PassesWhiteList(M) =>
                  /\ HasLine(schema.typeDefs, TypeHeader(M))
                  /\ HasLine(schema.typeDefs, InputHeader(M))
                  /\ \A line \in EnabledLinesOf(M) : HasLine(schema.typeDefs, line)
                  /\ M \in DOMAIN schema.resolvers

C8_Witness ==
    /\ fresh /\ whiteList = {"Post"} /\ RegisteredNames = {"Post", "Secret"}
    /\ HasLine(schema.typeDefs, TypeHeader("Post"))
    /\ ~HasLine(schema.typeDefs, TypeHeader("Secret"))
    /\ "postList" \in DOMAIN schema.resolvers["Query"]
    /\ "secretList" \notin DOMAIN schema.resolvers["Query"]

\* C9: addToWhiteList, addToBlackList and getSchema leave the model registry
\* and the metadata map as they were: what was registered stays registered.
C9_RegistryUntouched ==
    [][(AddToWhiteList \/ AddToBlackList \/ GetSchema) =>
          /\ models' = models
          /\ modelMetadata' = modelMetadata]_vars

C9_Witness ==
    /\ fresh /\ "User" \in RegisteredNames /\ "User" \in DOMAIN modelMetadata
    /\ whiteList = {"Post"} /\ blackList = {"User"}

\* C10: getSchema() called again with no registration call since the last one
\* returns the same typeDefs and a resolver map with the same keys under
\* Query, Mutation, Subscription and every type name.
C10_GetSchemaRepeatable ==
    [][(fresh /\ GetSchema) =>
          /\ schema'.typeDefs = schema.typeDefs
          /\ DOMAIN schema'.resolvers = DOMAIN schema.resolvers
          /\ \A k \in DOMAIN schema.resolvers :
                DOMAIN schema'.resolvers[k] = DOMAIN schema.resolvers[k]]_vars

C10_Witness ==
    /\ fresh /\ schema.generated /\ Len(models) = 1 /\ Len(customTypes) = 1
    /\ Len(customQueries) = 1
    /\ "post" \in DOMAIN schema.resolvers["Query"]

-----------------------------------------------------------------------------
(* Not-found, absent-handle and serialisation behaviour of the resolvers,  *)
(* checked under SpecResolve.                                              *)

\* the delete resolver of a model without authorization looked for a row
\* with the given id and the ORM had none
DeleteFoundNoRow ==
    inv.op = "delete" /\ ~inv.modelConfig.authRequired /\ inv.instance = "null"

\* C11: on a model without authorization, the delete resolver called with an
\* id that matches no row returns false and never calls destroy.
C11_DeleteNotFoundFalse ==
    DeleteFoundNoRow =>
        /\ inv.pc = "done"
        /\ inv.result = Returned("false", 0)
        /\ \A i \in 1..Len(inv.calls) : inv.calls[i].fn # "destroy"

C11_Witness ==
    /\ DeleteFoundNoRow /\ inv.model = "Post" /\ inv.args.id = "7"
    /\ inv.result.status = "returned" /\ inv.result.kind = "false"
    /\ Len(inv.calls) = 1 /\ inv.calls[1].fn = "findOne"
    /\ inv.calls[1].arg = Obj([id |-> "7"])

-----------------------------------------------------------------------------
(* Not-found behaviour of both generators' resolvers, checked under        *)
(* SpecBoth.                                                               *)

\* an update or delete resolver looked for the row and the ORM had none
NoRowFound == inv.op \in {"update", "delete"} /\ inv.instance = "null"

\* the invocation failed with an error whose message ends in "not found"
NotFoundError(iv) ==
    /\ iv.pc = "done" /\ iv.result.status = "thrown"
    /\ Len(iv.result.message) >= Len("not found")
    /\ SubSeq(iv.result.message, Len(iv.result.message) - Len("not found") + 1,
              Len(iv.result.message)) = "not found"

NoWriteCalls(iv) == \A i \in 1..Len(iv.calls) : iv.calls[i].fn \notin {"update", "destroy"}

\* C12 as stated: in every generated update and delete resolver, when no row
\* matches the id the resolver fails with a 'not found' error.
C12_NotFoundThrows == NoRowFound => NotFoundError(inv)

\* C12 amended: when no row matches the id, the update and delete resolvers
\* of GraphQLSchemaGenerator fail with '<TypeName> not found', those of
\* GraphQLHelper return null (update) and false (delete) without an error;
\* neither calls update or destroy.
C12_NotFoundByGenerator ==
    NoRowFound =>
        /\ inv.pc = "done"
        /\ NoWriteCalls(inv)
        /\ inv.by = "GraphQLSchemaGenerator" =>
              /\ NotFoundError(inv)
              /\ inv.result.message = inv.typeName \o " not found"
        /\ inv.by = "GraphQLHelper" =>
              inv.result = (IF inv.op = "update" THEN Returned("null", 0)
                            ELSE Returned("false", 0))

C12_Witness ==
    /\ NoRowFound /\ inv.by = "GraphQLSchemaGenerator" /\ inv.op = "update"
    /\ inv.model = "Post" /\ inv.result = Thrown("Article not found")
    /\ Len(inv.calls) = 1 /\ inv.calls[1].fn = "findByPk" /\ inv.calls[1].id = "7"

-----------------------------------------------------------------------------
(* Absent handles and serialisation, checked under SpecResolve and         *)
(* SpecGenerator.                                                          *)

\* a resolver of the helper was called and the helper has no ORM class for
\* its model: it was given no Sequelize instance, or one without the model
NoOrmClass ==
    /\ inv.pc # "idle" /\ inv.by = "GraphQLHelper"
    /\ (~sequelize.given \/ inv.model \notin sequelize.models)

\* C13: a resolver that cannot resolve an ORM model handle (no Sequelize
\* instance given, or the instance has no model of that name) returns null
\* (single fetch, create, update), [] (list) or false (delete), raises no
\* error and calls neither the authorization hook nor the ORM.
C13_AbsentHandleDegrades ==
    NoOrmClass =>
        /\ inv.pc = "done"
        /\ inv.calls = << >>
        /\ inv.result.status = "returned" /\ inv.result.rows = 0
        /\ inv.result.kind = (IF inv.op = "list" THEN "list"
                              ELSE IF inv.op = "delete" THEN "false" ELSE "null")

\* a read resolver (single fetch, list fetch) of either generator returned
ReadReturned ==
    inv.op \in {"query", "list"} /\ inv.pc = "done" /\ inv.result.status = "returned"

\* C14: every generated read resolver returns plain serialized structures
\* only: the toJSON() output of each row found, or null, or an empty list,
\* never a live instance of the ORM.
C14_ReadsSerialized ==
    ReadReturned =>
        /\ inv.op = "query" => inv.result.kind \in {"json", "null"}
        /\ inv.op = "list" =>
              /\ inv.result.kind = "list"
              /\ inv.result.rows > 0 => inv.result.elems = "json"

-----------------------------------------------------------------------------
(* Resolver invocations side by side. Every call of a generated resolver   *)
(* has its own locals (the closure's ModelClass, modelConfig, the          *)
(* conditions, authResult); the event loop runs one continuation at a      *)
(* time, whichever awaited call has returned.                              *)

Slots == 1..MaxConcurrent

ConcurrentClasses == {PostClass, UserClass}
ConcurrentIds == {"7", "8"}

\* the arguments of the invocations that run side by side
ConcurrentArgsOf(op) ==
    IF op = "list" THEN {[NoArgs EXCEPT !.where = w] : w \in Wheres}
    ELSE IF op = "create" THEN {[NoArgs EXCEPT !.input = i] : i \in Inputs}
    ELSE IF op = "update"
    THEN {[NoArgs EXCEPT !.id = id, !.input = i] : id \in ConcurrentIds, i \in Inputs}
    ELSE {[NoArgs EXCEPT !.id = id] : id \in ConcurrentIds}

ConcurrentAuthResults ==
    { [legacy |-> TRUE, success |-> FALSE, where |-> Undefined],
      AuthResult(TRUE, Undefined),
      AuthResult(TRUE, Obj([ownerId |-> "u1"])) }

\* OwnConditions read from a variable all invocations write: the
\* conditions of whichever invocation started last
SharedConditions(p, s) ==
    LET others == {t \in DOMAIN p : t # s /\ p[t].pc # "idle"}
    IN  IF others = {} THEN p[s].where ELSE p[CHOOSE t \in others : TRUE].where

\* the conditions of invocation s when its hook returns: its own local
OwnConditions(p, s) == p[s].where

onlyPool == <<registry, sequelize, schema, fresh, inv, classMetadata, generator,
              generatorSchema, app>>

\* the execution engine calls a generated resolver while others are awaiting
PoolInvoke(s) ==
    /\ pool[s].pc \in {"idle", "done"}
    /\ \E r \in CrudResolvers : \E args \in ConcurrentArgsOf(r.kind) : \E req \in Requests :
          pool' = [pool EXCEPT ![s] = ResolverStart(r.kind, r.of, args, req)]
    /\ UNCHANGED onlyPool

\* the hook of invocation s returns
PoolAuthReturns(s) ==
    /\ pool[s].pc = "awaitAuth"
    /\ \E authResult \in ConcurrentAuthResults :
          pool' = [pool EXCEPT ![s] =
                      ResolverAfterAuth([pool[s] EXCEPT !.where = OwnConditions(pool, s)],
                                        authResult)]
    /\ UNCHANGED onlyPool

\* findOne, findAll or create of invocation s returns
PoolOrmReturns(s) ==
    /\ pool[s].pc = "awaitOrm"
    /\ \E found \in BOOLEAN : \E rows \in {0, 2} :
          /\ (pool[s].op = "list" => found) /\ (pool[s].op # "list" => rows = 0)
          /\ (pool[s].op = "create" => found)
          /\ pool' = [pool EXCEPT ![s] = ResolverAfterOrm(pool[s], found, rows)]
    /\ UNCHANGED onlyPool

\* instance.update or instance.destroy of invocation s returns
PoolInstanceReturns(s) ==
    /\ pool[s].pc = "awaitInstance"
    /\ pool' = [pool EXCEPT ![s] = ResolverAfterInstance(pool[s])]
    /\ UNCHANGED onlyPool

\* a continuation of invocation s runs
PoolStep(s) == PoolAuthReturns(s) \/ PoolOrmReturns(s) \/ PoolInstanceReturns(s)

ConcurrentAddModel == \E model \in ConcurrentClasses : addModel(model)

PoolInvokes == \E s \in Slots : PoolInvoke(s)
PoolAuthReturn == \E s \in Slots : PoolAuthReturns(s)
PoolOrmReturn == \E s \in Slots : PoolOrmReturns(s)
PoolInstanceReturn == \E s \in Slots : PoolInstanceReturns(s)

LiveSequelize == [given |-> TRUE, models |-> {c.name : c \in ConcurrentClasses}]

InitConcurrent == Constructed({LiveSequelize})

NextConcurrent ==
    \/ ConcurrentAddModel /\ Len(models') <= MaxResolverModels
    \/ GetSchema
    \/ PoolInvokes
    \/ PoolAuthReturn
    \/ PoolOrmReturn
    \/ PoolInstanceReturn

\* Every awaited call of the invocations 2.. returns in the end and the
\* event loop then runs the continuation; of the first invocation nothing
\* is assumed: its hook may never return.
SpecConcurrent ==
    /\ InitConcurrent
    /\ [][NextConcurrent]_vars
    /\ \A s \in Slots \ {1} : WF_vars(PoolStep(s))

-----------------------------------------------------------------------------
(* Concurrent invocations, checked under SpecConcurrent.                   *)

\* the conditions invocation iv hands findOne or findAll, from its own
\* arguments and its own hook's result alone
ExpectedConditions(iv) ==
    IF iv.authReturned
    THEN MergeAuthWhere(iv.op, InitialConditions(iv.op, iv.args), iv.authResult)
    ELSE InitialConditions(iv.op, iv.args)

OwnConditionsOnly ==
    \A s \in Slots : \A i \in 1..Len(pool[s].calls) :
        pool[s].calls[i].fn \in {"findOne", "findAll"} =>
            pool[s].calls[i].arg = ExpectedConditions(pool[s])

Running(s) == pool[s].pc \in {"awaitAuth", "awaitOrm", "awaitInstance"}

\* C15: an invocation whose authorization hook never returns keeps no other
\* invocation from completing (every other invocation that was started
\* completes, whatever the first one does), and the conditions an invocation
\* hands the ORM are those of its own arguments merged with its own hook's
\* result.
C15_InvocationsIndependent ==
    /\ []OwnConditionsOnly
    /\ \A s \in Slots \ {1} : Running(s) ~> pool[s].pc = "done"

\* a second invocation returned rows found under its own conditions while
\* the first, called with other arguments, is still awaiting its hook
C15_Witness ==
    /\ pool[1].pc = "awaitAuth"
    /\ pool[2].pc = "done" /\ pool[2].result.status = "returned"
    /\ pool[2].authReturned /\ Truthy(pool[2].authResult.where)
    /\ pool[2].args # pool[1].args
    /\ \E i \in 1..Len(pool[2].calls) :
          /\ pool[2].calls[i].fn = "findOne"
          /\ pool[2].calls[i].arg = ExpectedConditions(pool[2])
          /\ pool[2].calls[i].arg # pool[1].where

-----------------------------------------------------------------------------
(* AppGraphQL: the application around a GraphQLHelper. The helper's fields *)
(* are the variables above; app holds the application's own collections,   *)
(* the items other applications contributed to the collection storage,     *)
(* where the application stands (constructed, mounted, failed when mount() *)
(* rejected) and the schema its ApolloServer was built from.               *)

\* items a list of the application holds at most
MaxAppItems == 3

\* what a contribution holds instead of a model class or a handler
NullItem == [malformed |-> "null"]
PrimitiveItem == [malformed |-> "string"]
IsWellFormed(item) == "malformed" \notin DOMAIN item

CollectionItem(item, appId) == [item |-> item, appId |-> appId]

AppClasses == {PostClass, UserClass, HiddenClass}
AppModelItems == AppClasses \cup {NullItem, PrimitiveItem}
AppQueryItems == CustomQueryItems \cup {NullItem}
GqlModelLists == { <<CollectionItem(NullItem, "blog"), CollectionItem(PostClass, "blog")>>,
                   <<CollectionItem(HiddenClass, "shop"), CollectionItem(UserClass, "shop")>>,
                   <<CollectionItem(PrimitiveItem, "shop")>> }

outsideApp == <<sequelize, inv, classMetadata, generator, generatorSchema, pool>>

\* processModels: every model goes to addModel inside try/catch; the catch
\* block reads model.name, which throws again when the model is null
RECURSIVE processModels(_, _)
processModels(h, items) ==
    IF items = << >> THEN [h |-> h, threw |-> FALSE]
    ELSE LET model == Head(items)
         IN  IF IsWellFormed(model) THEN processModels(AddedModel(h, model), Tail(items))
             ELSE IF model.malformed = "null" THEN [h |-> h, threw |-> TRUE]
             ELSE processModels(h, Tail(items))

\* processModels with a catch block that reads nothing of the model
RECURSIVE processModelsSkipping(_, _)
processModelsSkipping(h, items) ==
    IF items = << >> THEN [h |-> h, threw |-> FALSE]
    ELSE LET model == Head(items)
         IN  IF IsWellFormed(model)
             THEN processModelsSkipping(AddedModel(h, model), Tail(items))
             ELSE processModelsSkipping(h, Tail(items))

\* processCustomResolvers .. processCustomSubscriptions, processWhiteList,
\* processBlackList: the helper pushes every item; the log line that throws
\* on a null handler comes after the push and is caught
processOwnCollections(h, a) ==
    [h EXCEPT !.customResolvers = @ \o a.customResolvers,
              !.customTypes = @ \o a.customTypes,
              !.customQueries = @ \o a.customQueries,
              !.customMutations = @ \o a.customMutations,
              !.customSubscriptions = @ \o a.customSubscriptions,
              !.whiteList = @ \cup {a.whiteListedModels[i] : i \in 1..Len(a.whiteListedModels)},
              !.blackList = @ \cup {a.blackListedFields[i] : i \in 1..Len(a.blackListedFields)}]

ItemsIn(entries) == [i \in 1..Len(entries) |-> entries[i].item]

\* processAllAppCollections: the items of the collection storage
processAllAppCollections(h, collections) ==
    [h EXCEPT !.customQueries = @ \o ItemsIn(collections.customQueries),
              !.customMutations = @ \o ItemsIn(collections.customMutations),
              !.customSubscriptions = @ \o ItemsIn(collections.customSubscriptions),
              !.customTypes = @ \o ItemsIn(collections.customTypes)]

HasNull(items) == \E i \in 1..Len(items) : ~IsWellFormed(items[i])

\* getSchema() throws a TypeError: generateRootTypes reads query.description
\* of every custom query, mutation and subscription
SchemaThrows(h) ==
    HasNull(h.customQueries) \/ HasNull(h.customMutations) \/ HasNull(h.customSubscriptions)

SetHelper(h) ==
    /\ models' = h.models
    /\ modelMetadata' = h.modelMetadata
    /\ customResolvers' = h.customResolvers
    /\ customTypes' = h.customTypes
    /\ customQueries' = h.customQueries
    /\ customMutations' = h.customMutations
    /\ customSubscriptions' = h.customSubscriptions
    /\ blackList' = h.blackList
    /\ whiteList' = h.whiteList

\* mount() up to `await this.processAllAppCollections()`: the collections
\* are processed. The framework mounts an application once.
mount ==
    /\ app.state = "constructed"
    /\ LET m == processModels(Helper, app.models)
           h == processAllAppCollections(processOwnCollections(m.h, app), app.collections)
       IN  IF m.threw
           THEN /\ SetHelper(m.h)
                /\ app' = [app EXCEPT !.state = "failed"]
           ELSE /\ SetHelper(h)
                /\ app' = [app EXCEPT !.state = "mounting"]
    /\ fresh' = FALSE
    /\ UNCHANGED <<schema, outsideApp>>

\* mount() from there on: the schema is generated and handed to a new
\* ApolloServer
mountGenerates ==
    /\ app.state = "mounting"
    /\ IF SchemaThrows(Helper)
       THEN /\ app' = [app EXCEPT !.state = "failed"]
            /\ UNCHANGED <<schema, fresh>>
       ELSE LET schemaData == [generated |-> TRUE, typeDefs |-> generateTypeDefs,
                               resolvers |-> generateResolvers]
            IN  /\ schema' = schemaData
                /\ fresh' = TRUE
                /\ app' = [app EXCEPT !.state = "mounted", !.served = schemaData]
    /\ UNCHANGED <<registry, outsideApp>>

\* the helper after graphqlHelper.addModel(model): a TypeError leaves it as it was
HelperAddModel(h, model) == IF IsWellFormed(model) THEN AddedModel(h, model) ELSE h

\* AppGraphQL.addModel building a new server from a new schema
appAddModelReserving(a, model) ==
    LET added == [a EXCEPT !.models = Append(@, model)]
    IN  IF a.state = "mounted" /\ IsWellFormed(model)
        THEN [added EXCEPT !.served.typeDefs = Append(@, <<"type ", model.name, " {">>)]
        ELSE added

\* AppGraphQL.addModel: the application after it
appAddModel(a, model) == [a EXCEPT !.models = Append(@, model)]

AppAddModel ==
    /\ \E model \in AppModelItems :
          /\ app' = appAddModel(app, model)
          /\ SetHelper(HelperAddModel(Helper, model))
    /\ fresh' = FALSE
    /\ UNCHANGED <<schema, outsideApp>>

AppAddResolver ==
    /\ \E resolver \in CustomResolverItems :
          /\ app' = [app EXCEPT !.customResolvers = Append(@, resolver)]
          /\ SetHelper([Helper EXCEPT !.customResolvers = Append(@, resolver)])
    /\ fresh' = FALSE
    /\ UNCHANGED <<schema, outsideApp>>

AppAddType ==
    /\ \E type \in CustomTypeItems :
          /\ app' = [app EXCEPT !.customTypes = Append(@, type)]
          /\ SetHelper([Helper EXCEPT !.customTypes = Append(@, type)])
    /\ fresh' = FALSE
    /\ UNCHANGED <<schema, outsideApp>>

AppGetSchema ==
    /\ ~SchemaThrows(Helper)
    /\ getSchema

\* GQLModelHandler.process: the framework hands over the models other
\* applications contributed; a decorated class that is not excluded goes to
\* AppGraphQL.addModel
RECURSIVE processGqlModels(_, _)
processGqlModels(ah, collectionItems) ==
    IF collectionItems = << >> THEN ah
    ELSE LET model == Head(collectionItems).item
         IN  IF ~IsWellFormed(model) THEN processGqlModels(ah, Tail(collectionItems))
             ELSE LET modelMetadata_ == getGQLModelMetadata(model)
                  IN  IF modelMetadata_.defined /\ ~modelMetadata_.exclude
                      THEN processGqlModels([a |-> appAddModel(ah.a, model),
                                             h |-> HelperAddModel(ah.h, model)],
                                            Tail(collectionItems))
                      ELSE processGqlModels(ah, Tail(collectionItems))

ProcessGqlModels ==
    /\ \E collectionItems \in GqlModelLists :
          LET ah == processGqlModels([a |-> app, h |-> Helper], collectionItems)
          IN  /\ app' = ah.a
              /\ SetHelper(ah.h)
    /\ fresh' = FALSE
    /\ UNCHANGED <<schema, outsideApp>>

\* another application contributes a custom query to the collection storage
Contribute ==
    /\ app.state = "constructed"
    /\ \E item \in AppQueryItems :
          app' = [app EXCEPT !.collections.customQueries =
                                 Append(@, CollectionItem(item, "blog"))]
    /\ UNCHANGED <<registry, sequelize, schema, fresh, inv, classMetadata, generator,
                   generatorSchema, pool>>

Mount == mount
MountGenerates == mountGenerates

AppSize ==
    Len(app.models) + Len(app.customResolvers) + Len(app.customTypes)
    + Len(app.collections.customQueries)

NextApp ==
    \/ AppAddModel /\ AppSize' <= MaxAppItems
    \/ AppAddResolver /\ AppSize' <= MaxAppItems
    \/ AppAddType /\ AppSize' <= MaxAppItems
    \/ ProcessGqlModels /\ AppSize' <= MaxAppItems
    \/ Contribute /\ AppSize' <= MaxAppItems
    \/ AppGetSchema
    \/ Mount
    \/ MountGenerates

SpecApp == Init /\ [][NextApp]_vars

-----------------------------------------------------------------------------
(* The served schema and the errors of contributions, checked under        *)
(* SpecApp.                                                                *)

\* C16: the schema is generated once during mount(); once mount() has
\* handed typeDefs and resolvers to the execution engine, no addModel,
\* addType or addResolver call changes what the engine serves.
C16_ServedSchemaFixed ==
    /\ [](app.served.generated <=> app.state = "mounted")
    /\ [][app.state = "mounted" => app'.state = "mounted" /\ app'.served = app.served]_vars

\* after mount() a model and a type were added and getSchema() gives
\* another schema than the one served
C16_Witness ==
    /\ app.state = "mounted"
    /\ schema.generated /\ schema.typeDefs # app.served.typeDefs
    /\ Len(models) > 0 /\ ~HasLine(app.served.typeDefs, TypeHeader(models[Len(models)].name))

\* the well-formed, decorated models of the application's list
RegistrableModels ==
    {app.models[i].name : i \in {j \in 1..Len(app.models) :
        /\ IsWellFormed(app.models[j])
        /\ getGQLModelMetadata(app.models[j]).defined
        /\ ~getGQLModelMetadata(app.models[j]).exclude}}

ContributedQueries ==
    {app.collections.customQueries[i].item : i \in 1..Len(app.collections.customQueries)}

\* C18: when registering one contributed item raises an error at mount time,
\* the error is caught, only that item is skipped, every other item is
\* registered and mounting goes on.
C18_MountIsolatesErrors ==
    app.state \notin {"constructed", "mounting"} =>
        /\ app.state = "mounted"
        /\ RegistrableModels \subseteq RegisteredNames
        /\ \A q \in ContributedQueries :
              IF IsWellFormed(q) THEN \E i \in 1..Len(customQueries) : customQueries[i] = q
              ELSE \A i \in 1..Len(customQueries) : customQueries[i] # q

-----------------------------------------------------------------------------
(* The metadata of the model classes under generateGraphQLModelConfig,     *)
(* addModel and getSchema.                                                 *)

\* generateGraphQLModelConfig(modelClass, options), its result dropped
GenerateConfig ==
    /\ \E modelClass \in ModelClasses : \E options \in GenerateOptions :
          classMetadata' = MetadataAfterGenerate(modelClass, options)
    /\ \A r \in DOMAIN classMetadata' :
          Len(classMetadata'[r].excludeFields.items) <= MaxExcludeFields
    /\ UNCHANGED <<registry, sequelize, schema, fresh, inv, generator, generatorSchema,
                   pool, app>>

NextMetadata ==
    \/ GenerateConfig
    \/ AddModel /\ RegistrySize' <= MaxRegistrations
    \/ GetSchema

SpecMetadata == Init /\ [][NextMetadata]_vars

\* what getGQLModelMetadata gave for class c once its decorators had run
Attached(c) == IF c.gqlModel.defined THEN c.gqlModel ELSE EmptyConfig

\* C17: the metadata attached to a model class is never modified: after any
\* sequence of generateGraphQLModelConfig, addModel and getSchema calls the
\* model metadata read back from every class (its excludeFields, its
\* customFields, its operations) is what the decorators attached, and so is
\* the metadata the helper registered.
C17_MetadataImmutable ==
    /\ \A c \in ModelClasses :
          /\ getGQLModelMetadata(c) = Attached(c)
          /\ getGQLFields(c) = c.gqlFields
    /\ \A i \in 1..Len(models) :
          \E c \in ModelClasses :
              /\ c.name = models[i].name
              /\ modelMetadata[c.name].modelConfig = Attached(c)
              /\ modelMetadata[c.name].fieldConfigs = c.gqlFields

-----------------------------------------------------------------------------
(* Nullability of the generated fields, checked under SpecBoth.            *)

EndsWithBang(str) == Len(str) > 0 /\ SubSeq(str, Len(str), Len(str)) = "!"
StartsWith(str, prefix) == Len(str) >= Len(prefix) /\ SubSeq(str, 1, Len(prefix)) = prefix

\* the rule: an explicit nullable of the field's metadata decides; else an
\* attribute is non-null when its allowNull is false, an association when
\* it is a BelongsTo
NonNullAttribute(attr, fieldConfig) ==
    IF fieldConfig.nullable # "undefined" THEN fieldConfig.nullable = "false"
    ELSE attr.allowNull = "false"

NonNullAssociation(assoc, fieldConfig) ==
    IF fieldConfig.nullable # "undefined" THEN fieldConfig.nullable = "false"
    ELSE assoc.associationType = "BelongsTo"

\* the field lines of the block of GraphQLHelper typeDefs td under header
HelperBlock(td, header) ==
    { j \in 1..Len(td) :
        /\ IsFieldLine(td[j])
        /\ \E i \in 1..(j - 1) :
              /\ td[i] = header
              /\ \A k \in (i + 1)..(j - 1) : td[k] # <<"}">> }

\* the lines of the block of GraphQLSchemaGenerator typeDefs td under header
GeneratorBlock(td, header) ==
    { j \in 1..Len(td) :
        \E i \in 1..(j - 1) :
            /\ td[i] = header
            /\ \A k \in (i + 1)..j : td[k] # "}" }

\* the fields GraphQLHelper generated follow the rule
HelperNullability ==
    fresh =>
        \A i \in 1..Len(models) :
            LET M == models[i].name
                fieldConfigs == modelMetadata[M].fieldConfigs
                td == schema.typeDefs
            IN  \A header \in {TypeHeader(M), InputHeader(M)} :
                \A j \in HelperBlock(td, header) :
                    /\ \A a \in 1..Len(models[i].attributes) :
                          models[i].attributes[a].name = td[j][2] =>
                              (EndsWithBang(td[j][4]) <=>
                                   NonNullAttribute(models[i].attributes[a],
                                                    FieldConfigOf(fieldConfigs, td[j][2])))
                    /\ \A a \in 1..Len(models[i].associations) :
                          models[i].associations[a].name = td[j][2] =>
                              (EndsWithBang(td[j][4]) <=>
                                   NonNullAssociation(models[i].associations[a],
                                                      FieldConfigOf(fieldConfigs, td[j][2])))

\* the fields GraphQLSchemaGenerator generated follow the rule
GeneratorNullability ==
    (generatorSchema.generated /\ generatorSchema = GeneratedSchema) =>
        \A i \in 1..Len(generator.models) :
            LET model == generator.models[i]
                typeName == getTypeName(GeneratorConfigOf(model.name), model.name)
                fieldConfigs == getGQLFields(model)
                td == generatorSchema.typeDefs
            IN  \A header \in {"type " \o typeName \o " {", "input " \o typeName \o "Input {"} :
                \A j \in GeneratorBlock(td, header) :
                    /\ \A a \in 1..Len(model.rawAttributes) :
                          StartsWith(td[j], "  " \o model.rawAttributes[a].name \o ": ") =>
                              (EndsWithBang(td[j]) <=>
                                   NonNullAttribute(model.rawAttributes[a],
                                                    FieldConfigOf(fieldConfigs,
                                                                  model.rawAttributes[a].name)))
                    /\ \A a \in 1..Len(model.associations) :
                          StartsWith(td[j], "  " \o model.associations[a].name \o ": ") =>
                              (EndsWithBang(td[j]) <=>
                                   NonNullAssociation(model.associations[a],
                                                      FieldConfigOf(fieldConfigs,
                                                                    model.associations[a].name)))

\* C19: for every generated field an explicit nullable of the field
\* configuration is used; otherwise an attribute is nullable exactly when
\* its allow-null flag is not false and an association is non-null exactly
\* when it is a BelongsTo; a non-null field ends in '!', a nullable one
\* does not.
C19_NullabilityRule == HelperNullability /\ GeneratorNullability

-----------------------------------------------------------------------------
(* The root fields of the generated models, checked under Spec.            *)

\* the text of a line of GraphQLHelper typeDefs
RECURSIVE LineText(_)
LineText(line) == IF line = << >> THEN "" ELSE Head(line) \o LineText(Tail(line))

\* the lines of the root type `kind` in typeDefs td
RootBlock(td, kind) ==
    { j \in 1..Len(td) :
        \E i \in 1..(j - 1) :
            /\ td[i] = <<"            type " \o kind \o " {">>
            /\ \A k \in (i + 1)..j : td[k] # <<"            }">> }

\* how often root type `kind` holds the field `text`
Emitted(td, kind, text) ==
    Cardinality({j \in RootBlock(td, kind) : LineText(td[j]) = "  " \o text})

\* root type `kind` holds a field whose text starts with `start`
EmitsSome(td, kind, start) ==
    \E j \in RootBlock(td, kind) : StartsWith(LineText(td[j]), "  " \o start)

Enabled(M, kind) ==
    LET operations == modelMetadata[M].modelConfig.operations
    IN  ~operations.defined \/ operations[kind]

\* C20: for every registered model M that passes the whitelist, m its name
\* with a lower-case first letter, getSchema() emits m(id: String!): M and
\* mList(where: JSON, limit: Int, offset: Int, order: String): [M] when query
\* is enabled; createM(input: MInput!): M, updateM(id: String!, input:
\* MInput!): M and deleteM(id: String!): Boolean when mutation is enabled;
\* mCreated, mUpdated and mDeleted when subscription is enabled; each once,
\* in its root type, and none of them for an operation kind that is disabled.
C20_RootFieldsPerOperation ==
    fresh =>
        \A M \in RegisteredNames :
            LET m == QueryName(M)
                td == schema.typeDefs
                queries == { m \o "(id: String!): " \o M,
                             m \o "List(where: JSON, limit: Int, offset: Int, order: String): ["
                                 \o M \o "]" }
                mutations == { "create" \o M \o "(input: " \o M \o "Input!): " \o M,
                               "update" \o M \o "(id: String!, input: " \o M \o "Input!): " \o M,
                               "delete" \o M \o "(id: String!): Boolean" }
                subscriptions == { m \o "Created", m \o "Updated", m \o "Deleted" }
            IN  PassesWhiteList(M) =>
                    /\ IF Enabled(M, "query")
                       THEN \A text \in queries : Emitted(td, "Query", text) = 1
                       ELSE ~EmitsSome(td, "Query", m \o "(")
                            /\ ~EmitsSome(td, "Query", m \o "List(")
                    /\ IF Enabled(M, "mutation")
                       THEN \A text \in mutations : Emitted(td, "Mutation", text) = 1
                       ELSE \A start \in {"create", "update", "delete"} :
                               ~EmitsSome(td, "Mutation", start \o M \o "(")
                    /\ IF Enabled(M, "subscription")
                       THEN \A start \in subscriptions :
                               EmitsSome(td, "Subscription", start)
                       ELSE \A start \in subscriptions :
                               ~EmitsSome(td, "Subscription", start)

\* Post, with query and mutation enabled and subscription not, is in the
\* schema with its two query fields and three mutation fields and no
\* subscription field, next to a model with all three kinds
C20_Witness ==
    /\ fresh /\ "Post" \in RegisteredNames /\ PassesWhiteList("Post")
    /\ Emitted(schema.typeDefs, "Query", "post(id: String!): Post") = 1
    /\ Emitted(schema.typeDefs, "Mutation", "deletePost(id: String!): Boolean") = 1
    /\ ~EmitsSome(schema.typeDefs, "Subscription", "postCreated")
    /\ EmitsSome(schema.typeDefs, "Subscription", "secretDeleted")

-----------------------------------------------------------------------------
(* The resolvers of association fields. A field resolver is called with    *)
(* the parent object; inv.field is the association, inv.parent whether the *)
(* parent carries the related data ("loaded") or not ("bare").             *)

Parents == {[id |-> "7", carries |-> TRUE], [id |-> "7", carries |-> FALSE]}

FieldCall(modelName, assocName, parent, by) ==
    [Idle EXCEPT !.by = by, !.op = "field", !.model = modelName, !.field = assocName,
                 !.parent = IF parent.carries THEN "loaded" ELSE "bare",
                 !.args = [NoArgs EXCEPT !.id = parent.id]]

\* GraphQLHelper's field resolver: return parent[assocName]
HelperFieldResolver(modelName, assocName, parent) ==
    [FieldCall(modelName, assocName, parent, "GraphQLHelper") EXCEPT
        !.pc = "done",
        !.result = IF parent.carries THEN Returned("related", 1)
                   ELSE Returned("undefined", 0)]

\* GraphQLSchemaGenerator's field resolver up to its await: the owning
\* record is fetched again when parent[assocName] is falsy
GeneratorFieldStart(modelName, assocName, parent) ==
    LET iv == FieldCall(modelName, assocName, parent, "GraphQLSchemaGenerator")
    IN  IF ~parent.carries
        THEN [iv EXCEPT !.pc = "awaitFetch",
                        !.calls = << [Call("findByPk", "", Undefined, "") EXCEPT
                                         !.id = parent.id, !.include = assocName] >>]
        ELSE [iv EXCEPT !.pc = "done", !.result = Returned("related", 1)]

\* return (instance as any)?.[assocName]
GeneratorFieldAfterFetch(iv, found) ==
    [iv EXCEPT !.pc = "done", !.instance = IF found THEN "row" ELSE "null",
               !.result = IF found THEN Returned("related", 1)
                          ELSE Returned("undefined", 0)]

\* the field resolvers a resolver map holds: <<type name, field name>>
FieldResolversIn(resolvers, kind) ==
    { tf \in (DOMAIN resolvers \ RootKeys) \X
              UNION {DOMAIN resolvers[t] : t \in DOMAIN resolvers \ RootKeys} :
        /\ tf[2] \in DOMAIN resolvers[tf[1]]
        /\ resolvers[tf[1]][tf[2]].kind = kind }

\* the execution engine calls a field resolver GraphQLHelper generated
FieldInvoke ==
    /\ inv.pc \in {"idle", "done"}
    /\ schema.generated
    /\ \E tf \in FieldResolversIn(schema.resolvers, "field") : \E parent \in Parents :
          inv' = HelperFieldResolver(tf[1], tf[2], parent)
    /\ UNCHANGED helperAndGenerator

\* the execution engine calls a field resolver GraphQLSchemaGenerator generated
GeneratorFieldInvoke ==
    /\ inv.pc \in {"idle", "done"}
    /\ generatorSchema.generated
    /\ \E tf \in FieldResolversIn(generatorSchema.resolvers, "association") :
       \E parent \in Parents :
          inv' = GeneratorFieldStart(generatorSchema.resolvers[tf[1]][tf[2]].of, tf[2], parent)
    /\ UNCHANGED helperAndGenerator

\* model.findByPk(parent.id, { include }) returns
GeneratorFieldReturns ==
    /\ inv.pc = "awaitFetch"
    /\ \E found \in BOOLEAN : inv' = GeneratorFieldAfterFetch(inv, found)
    /\ UNCHANGED helperAndGenerator

NextFields ==
    \/ AddModel /\ BothSize' <= MaxBothModels
    \/ GetSchema
    \/ FieldInvoke
    \/ GeneratorAddModel /\ BothSize' <= MaxBothModels
    \/ GeneratorAddModelWithConfig /\ BothSize' <= MaxBothModels
    \/ GenerateSchema
    \/ GeneratorFieldInvoke
    \/ GeneratorFieldReturns

SpecFields == Init /\ [][NextFields]_vars

\* a field resolver returned
FieldReturned == inv.op = "field" /\ inv.pc = "done" /\ inv.result.status = "returned"

\* the one call a field resolver makes for a bare parent
RefetchOf(iv) ==
    [Call("findByPk", "", Undefined, "") EXCEPT !.id = iv.args.id, !.include = iv.field]

\* C21: a generated association field resolver returns the related data
\* the parent carries when it is present, and otherwise fetches the owning
\* record again by the parent's id with the association included and
\* returns the association of the fetched record.
C21_FieldResolverFetches ==
    FieldReturned =>
        IF inv.parent = "loaded"
        THEN inv.result.kind = "related" /\ inv.calls = << >>
        ELSE /\ inv.calls = << RefetchOf(inv) >>
             /\ inv.instance = "row" => inv.result.kind = "related"

-----------------------------------------------------------------------------
(* generateGraphQLModelConfig called for its result, checked under         *)
(* SpecConfig. The invocation slot holds the call and what it returned.    *)

\* the options generateGraphQLModelConfig is called with
ConfigOptions ==
    GenerateOptions \cup
    { [excludeFields |-> NoExcludeFields,
       enableOperations |-> [query |-> FALSE, subscription |-> TRUE],
       overrideTypeName |-> ""],
      [excludeFields |-> NoExcludeFields, enableOperations |-> EmptyObj,
       overrideTypeName |-> "Entry"] }

\* generateGraphQLModelConfig(modelClass, options)
generateGraphQLModelConfig(modelClass, options) ==
    /\ inv' = [Idle EXCEPT !.pc = "returned", !.by = "configGenerator",
                           !.op = "generateGraphQLModelConfig",
                           !.model = modelClass.name,
                           !.args = [modelClass |-> modelClass.ref, options |-> options],
                           !.result = GeneratedConfig(modelClass, options)]
    /\ classMetadata' = MetadataAfterGenerate(modelClass, options)

ConfigCall ==
    /\ \E modelClass \in DecoratedClasses : \E options \in ConfigOptions :
          generateGraphQLModelConfig(modelClass, options)
    /\ \A r \in DOMAIN classMetadata' :
          Len(classMetadata'[r].excludeFields.items) <= MaxExcludeFields
    /\ UNCHANGED <<registry, sequelize, schema, fresh, generator, generatorSchema,
                   pool, app>>

NextConfig ==
    \/ ConfigCall
    \/ AddModel /\ RegistrySize' <= MaxRegistrations

SpecConfig == Init /\ [][NextConfig]_vars

\* generateGraphQLModelConfig has returned
ConfigReturned == inv.by = "configGenerator" /\ inv.pc = "returned"

\* the class generateGraphQLModelConfig was called with
ConfigClass == CHOOSE c \in DecoratedClasses : c.ref = inv.args.modelClass

\* C22: in the result of generateGraphQLModelConfig every key of
\* options.override (here typeName) has the override's value, also when the
\* decorator metadata of the class sets the same key.
C22_OverrideWins ==
    (ConfigReturned /\ inv.args.options.overrideTypeName # "")
        => getTypeName(inv.result, inv.model) = inv.args.options.overrideTypeName

\* the flag of one operation kind by layering: enableOperations of the
\* options, else the operations of the decorator, else the default
LayeredFlag(modelClass, options, kind) ==
    LET decorated == Attached(modelClass).operations
    IN  IF kind \in DOMAIN options.enableOperations THEN options.enableOperations[kind]
        ELSE IF decorated.defined /\ kind \in decorated.keys THEN decorated[kind]
        ELSE DefaultOperations[kind]

\* C23: each operation flag of the generated configuration is resolved on
\* its own by layering: the flag of options.enableOperations where it is
\* set, else the flag of the decorator's operations where it is set, else
\* the default (query true, mutation false, subscription false); a
\* decorator that sets only mutation leaves query enabled.
C23_OperationsLayered ==
    ConfigReturned =>
        \A kind \in OperationKinds :
            getOperations(inv.result)[kind]
                = LayeredFlag(ConfigClass, inv.args.options, kind)

-----------------------------------------------------------------------------
(* The input types of GraphQLSchemaGenerator, checked under SpecInput.     *)

\* generator.addModel(Draft), with or without a generated configuration
GeneratorAddDraft ==
    /\ \E given \in BOOLEAN :
          generatorAddModel(DraftClass, given, GeneratedConfig(DraftClass, NoOptions))
    /\ UNCHANGED <<registry, sequelize, schema, fresh, inv, classMetadata, generatorSchema,
                   pool, app>>

\* models, custom types and blacklist items the generator holds at most
MaxInputItems == 2

NextInput ==
    \/ GeneratorAddDraft /\ GeneratorSize' <= MaxInputItems
    \/ GeneratorAddModel /\ GeneratorSize' <= MaxInputItems
    \/ GeneratorAddModelWithConfig /\ GeneratorSize' <= MaxInputItems
    \/ GeneratorAddToBlackList /\ GeneratorSize' <= MaxInputItems
    \/ AddCustomType /\ GeneratorSize' <= MaxInputItems
    \/ GenerateSchema

SpecInput == Init /\ [][NextInput]_vars

HasBang(str) == \E i \in 1..Len(str) : SubSeq(str, i, i) = "!"

\* the lines of the fields of the input types in typeDefs td
GeneratorInputLines(td) ==
    { j \in 1..Len(td) :
        \E i \in 1..(j - 1) :
            /\ StartsWith(td[i], "input ")
            /\ \A k \in (i + 1)..j : td[k] # "}" }

\* C24: in the input type GraphQLSchemaGenerator emits no field is required:
\* whatever the allowNull of the attribute and the nullable, list or
\* customType of its metadata, the type of the emitted input field holds
\* no '!'.
C24_InputFieldsOptional ==
    generatorSchema # NoSchema =>
        \A j \in GeneratorInputLines(generatorSchema.typeDefs) :
            ~HasBang(generatorSchema.typeDefs[j])

-----------------------------------------------------------------------------
(* Blacklisting a bare model name, in the helper and through mount(),      *)
(* checked under SpecBlackList. The application's lists are public fields: *)
(* its owner fills them before the framework mounts it.                    *)

\* the values given to the fields models and blackListedFields
OwnModelLists == { <<UserClass>>, <<PostClass, UserClass>>, <<NullItem, UserClass>> }
OwnBlackLists == { <<"User">>, <<"Post", "id">> }

\* this.models = list
AssignModels ==
    /\ app.state = "constructed"
    /\ \E list \in OwnModelLists : app' = [app EXCEPT !.models = list]
    /\ UNCHANGED <<registry, schema, fresh, outsideApp>>

\* this.blackListedFields = list
AssignBlackListedFields ==
    /\ app.state = "constructed"
    /\ \E list \in OwnBlackLists : app' = [app EXCEPT !.blackListedFields = list]
    /\ UNCHANGED <<registry, schema, fresh, outsideApp>>

NextBlackList ==
    \/ AddModel /\ RegistrySize' <= MaxRegistrations
    \/ AddToBlackList /\ RegistrySize' <= MaxRegistrations
    \/ AddToWhiteList /\ RegistrySize' <= MaxRegistrations
    \/ GetSchema
    \/ AssignModels
    \/ AssignBlackListedFields
    \/ Mount
    \/ MountGenerates

SpecBlackList == Init /\ [][NextBlackList]_vars

\* the line that follows the header in typeDefs td closes the block
EmptyBlock(td, header) ==
    \E i \in 1..(Len(td) - 1) : td[i] = header /\ td[i + 1] = <<"}">>

\* the CRUD resolvers of model M are under their root keys
HasCrudResolvers(resolvers, M) ==
    LET m == QueryName(M)
        at(root, key, kind) ==
            key \in DOMAIN resolvers[root] /\ resolvers[root][key] = Resolver(kind, M)
    IN  /\ Enabled(M, "query") =>
              at("Query", m, "query") /\ at("Query", m \o "List", "list")
        /\ Enabled(M, "mutation") =>
              /\ at("Mutation", "create" \o M, "create")
              /\ at("Mutation", "update" \o M, "update")
              /\ at("Mutation", "delete" \o M, "delete")

\* a blacklisted bare model name in the schema getSchema() returned
BlackListedInSchema ==
    fresh =>
        \A M \in blackList \cap ModelNames :
            IF M \in RegisteredNames
            THEN PassesWhiteList(M) =>
                    /\ EmptyBlock(schema.typeDefs, TypeHeader(M))
                    /\ EmptyBlock(schema.typeDefs, InputHeader(M))
                    /\ \A line \in EnabledLinesOf(M) : HasLine(schema.typeDefs, line)
                    /\ HasCrudResolvers(schema.resolvers, M)
            ELSE NothingOf(schema, M)

\* addModel(M) with M blacklisted leaves the registry as it is
BlackListedStaysOut ==
    \A c \in ModelClasses : (c.name \in blackList /\ addModel(c)) => UNCHANGED registry

\* the step of mount() that processes the collections
MountStep == app.state = "constructed" /\ app'.state \in {"mounting", "failed"}

\* the own models mount() reaches: those before the first null of the list
ReachedModels ==
    { app.models[i] : i \in { j \in 1..Len(app.models) :
        /\ IsWellFormed(app.models[j])
        /\ \A k \in 1..(j - 1) : app.models[k] # NullItem } }

\* mount() registers the own models before it applies the blacklist
MountRegistersFirst ==
    MountStep =>
        \A c \in ReachedModels :
            (c.name \notin blackList /\ getGQLModelMetadata(c).defined
             /\ ~getGQLModelMetadata(c).exclude)
                => c.name \in {models'[i].name : i \in 1..Len(models')}

-----------------------------------------------------------------------------
(* Root fields against resolver keys, checked under Spec.                  *)

RootKeyOf(kind) ==
    IF kind = "query" THEN "Query" ELSE IF kind = "mutation" THEN "Mutation"
    ELSE "Subscription"

\* the names of the root fields of kind `kind` a model named M can have
OperationNames(M, kind) ==
    LET m == QueryName(M)
    IN  IF kind = "query" THEN {m, m \o "List"}
        ELSE IF kind = "mutation" THEN {"create" \o M, "update" \o M, "delete" \o M}
        ELSE {m \o "Created", m \o "Updated", m \o "Deleted"}

\* the names of the fields of model M in root type `kind` of typeDefs td
EmittedNames(td, M, kind) ==
    { td[j][2] : j \in { i \in RootBlock(td, RootKeyOf(kind)) :
                           td[i] \in RootLinesOf(M) /\ td[i][2] \in OperationNames(M, kind) } }

\* the keys of model M under the root key of `kind` in a resolver map
ResolverKeys(resolvers, M, kind) ==
    DOMAIN resolvers[RootKeyOf(kind)] \cap OperationNames(M, kind)

\* C26: for every registered model that passes the whitelist and each
\* operation kind enabled for it (query, mutation, subscription), the names
\* of the root fields getSchema() emits in typeDefs are the resolver keys it
\* generates under the matching root key.
C26_RootFieldsHaveResolvers ==
    fresh =>
        \A M \in RegisteredNames :
            PassesWhiteList(M) =>
                \A kind \in OperationKinds :
                    Enabled(M, kind) =>
                        EmittedNames(schema.typeDefs, M, kind)
                            = ResolverKeys(schema.resolvers, M, kind)

\* the same for query and mutation alone
QueryAndMutationAgree ==
    fresh =>
        \A M \in RegisteredNames :
            PassesWhiteList(M) =>
                \A kind \in {"query", "mutation"} :
                    Enabled(M, kind) =>
                        /\ EmittedNames(schema.typeDefs, M, kind) = OperationNames(M, kind)
                        /\ ResolverKeys(schema.resolvers, M, kind) = OperationNames(M, kind)

-----------------------------------------------------------------------------
(* The types of association fields, checked under Spec.                    *)

\* the texts a field of type name T can have as its type
TypeTextsOf(T) == {T, T \o "!", "[" \o T \o "]", "[" \o T \o "]!"}

\* the type names of the association fields emitted in the object type of
\* the registered model at position i
EmittedAssociationTypes(td, i) ==
    LET model == models[i]
    IN  { model.associations[a].target : a \in { b \in 1..Len(model.associations) :
            \E j \in HelperBlock(td, TypeHeader(model.name)) :
                /\ td[j][2] = model.associations[b].name
                /\ td[j][4] \in TypeTextsOf(model.associations[b].target) } }

\* C27: every type name used as the type of an association field in the
\* typeDefs getSchema() returns is the name of a model whose object type is
\* emitted in the same typeDefs, whatever the registry, the whitelist and
\* the blacklist.
C27_AssociationTypesEmitted ==
    fresh =>
        \A i \in 1..Len(models) :
            \A T \in EmittedAssociationTypes(schema.typeDefs, i) :
                HasLine(schema.typeDefs, TypeHeader(T))

-----------------------------------------------------------------------------
(* Manual registration followed by mount(), checked under SpecApp.         *)

\* how often item is in the list items
Occurrences(items, item) == Cardinality({i \in 1..Len(items) : items[i] = item})

\* C28: after any sequence of AppGraphQL.addType and addResolver calls
\* followed by mount(), each added custom type is in the typeDefs generated
\* at mount as often as it was added (once for one call) and each resolver
\* map is registered in the helper as often as it was added.
C28_ManualItemsOnce ==
    app.state = "mounted" =>
        /\ \A type \in CustomTypeItems :
              /\ Occurrences(app.served.typeDefs, <<type>>)
                     = Occurrences(app.customTypes, type)
              /\ Occurrences(customTypes, type) = Occurrences(app.customTypes, type)
        /\ \A resolver \in CustomResolverItems :
              Occurrences(customResolvers, resolver)
                  = Occurrences(app.customResolvers, resolver)

-----------------------------------------------------------------------------
(* Precedence in the resolver map, checked under SpecPrecedence: resolver  *)
(* maps and handlers that name the same fields as each other and as the    *)
(* CRUD resolvers of Post.                                                 *)

\* items the helper holds at most
MaxPrecedenceItems == 4

PrecedenceClasses == {PostClass, UserClass}

PrecedenceResolverItems ==
    CustomResolverItems \cup
    { [Query |-> [post |-> Custom("r2.post")],
       Mutation |-> [createPost |-> Custom("r2.createPost")]] }

PrecedenceQueryItems ==
    CustomQueryItems \cup
    { [name |-> "post", type |-> "Post", resolver |-> Custom("q2.post"), description |-> ""] }

PrecedenceMutationItems ==
    { [name |-> "createPost", inputType |-> "", outputType |-> "Post",
       resolver |-> Custom("m.createPost"), description |-> ""] }

NextPrecedence ==
    \/ (\E model \in PrecedenceClasses : addModel(model))
          /\ RegistrySize' <= MaxPrecedenceItems
    \/ (\E r \in PrecedenceResolverItems : addResolver(r))
          /\ RegistrySize' <= MaxPrecedenceItems
    \/ (\E q \in PrecedenceQueryItems : addQuery(q))
          /\ RegistrySize' <= MaxPrecedenceItems
    \/ (\E m \in PrecedenceMutationItems : addMutation(m))
          /\ RegistrySize' <= MaxPrecedenceItems
    \/ AddSubscription /\ RegistrySize' <= MaxPrecedenceItems
    \/ GetSchema

SpecPrecedence == Init /\ [][NextPrecedence]_vars

\* the handlers added for a root key
HandlersOf(root) ==
    IF root = "Query" THEN customQueries
    ELSE IF root = "Mutation" THEN customMutations
    ELSE customSubscriptions

Last(indices) == CHOOSE i \in indices : \A j \in indices : j <= i

\* the positions of the handlers named key, of the resolver maps that set key
HandlersNamed(root, key) ==
    {i \in 1..Len(HandlersOf(root)) : HandlersOf(root)[i].name = key}
MapsWith(root, key) ==
    {i \in 1..Len(customResolvers) :
        root \in DOMAIN customResolvers[i] /\ key \in DOMAIN customResolvers[i][root]}

\* C29: when a custom handler, a custom resolver map and a model name the
\* same root field, the resolver map getSchema() returns holds the handler
\* added with addQuery/addMutation/addSubscription before the one of an
\* addResolver map before the generated CRUD resolver, and within a group
\* the one added last.
C29_ResolverPrecedence ==
    fresh =>
        \A root \in RootKeys :
            /\ \A i \in 1..Len(HandlersOf(root)) :
                  HandlersOf(root)[i].name \in DOMAIN schema.resolvers[root]
            /\ \A i \in 1..Len(customResolvers) :
                  root \in DOMAIN customResolvers[i] =>
                      DOMAIN customResolvers[i][root] \subseteq DOMAIN schema.resolvers[root]
            /\ \A key \in DOMAIN schema.resolvers[root] :
                  LET resolver == schema.resolvers[root][key]
                  IN  IF HandlersNamed(root, key) # {}
                      THEN resolver = HandlersOf(root)[Last(HandlersNamed(root, key))].resolver
                      ELSE IF MapsWith(root, key) # {}
                      THEN resolver = customResolvers[Last(MapsWith(root, key))][root][key]
                      ELSE resolver.kind \in CrudKinds /\ resolver.of \in RegisteredNames

\* Post is registered, two resolver maps and a query handler name its
\* fields: post is the handler's, createPost the second map's, postList
\* the generated one
C29_Witness ==
    /\ fresh /\ "Post" \in RegisteredNames
    /\ Len(customResolvers) = 2 /\ customResolvers[2].Query.post = Custom("r2.post")
    /\ customResolvers[1].Query.post = Custom("r.post")
    /\ Len(customQueries) = 1
    /\ schema.resolvers.Query.post = Custom("q.post")
    /\ schema.resolvers.Mutation.createPost = Custom("r2.createPost")
    /\ schema.resolvers.Query.postList = Resolver("list", "Post")

-----------------------------------------------------------------------------
(* The enableMutations setting, checked under SpecApp.                     *)

\* the names of the mutation fields of a model named M
MutationNames(M) == {"create" \o M, "update" \o M, "delete" \o M}

\* C30: when AppGraphQL is constructed with enableMutations false, the
\* default, the schema generated at mount() has no create, update or delete
\* field of a model in type Mutation and no generated resolver for one.
C30_MutationsDisabled ==
    (app.state = "mounted" /\ ~app.config.enableMutations) =>
        \A M \in ModelNames :
            /\ \A name \in MutationNames(M) :
                  ~EmitsSome(app.served.typeDefs, "Mutation", name \o "(")
            /\ \A key \in DOMAIN app.served.resolvers.Mutation \cap MutationNames(M) :
                  app.served.resolvers.Mutation[key].kind \notin CrudKinds

=============================================================================
